---- MODULE Spec2Model ----
(***************************************************************************)
(* analysta: key-aware DataFrame diff (Delta) and whitespace trimming.     *)
(*                                                                         *)
(* A DataFrame is a record                                                 *)
(*   [cols  : sequence of column names,                                    *)
(*    dtype : column name -> "int64" | "float64" | "object",               *)
(*    rows  : sequence of [idx : index label, cells : column -> cell]].    *)
(* A cell is NULL (None / NaN), Num(n) or Str(s); a string is a sequence   *)
(* of one-character strings so that str.strip() is computed, not assumed.  *)
(* Numbers are fixed-point: cell values and abs_tol count hundredths,      *)
(* rel_tol counts ten-thousandths (100.25 is 10025, rel_tol 0.0025 is 25). *)
(***************************************************************************)
EXTENDS Integers, Sequences, FiniteSets, TLC

\* Largest number of rows of an input table.
MaxRows == 2

\* The number of rows of the tables expect_df is called on.
MaxExpectRows == 3

\* Largest number of rows of the tables longer than a table of the report.
MaxLongRows == 51

-----------------------------------------------------------------------------
(* Cells and strings *)

NULL == [t |-> "null", n |-> 0, s |-> <<>>]
Num(n) == [t |-> "num", n |-> n, s |-> <<>>]
Str(s) == [t |-> "str", n |-> 0, s |-> s]

isnull(c) == c.t = "null"

Abs(x) == IF x < 0 THEN -x ELSE x

\* The characters str.strip() removes (of the characters used here).
IsSpace(ch) == ch \in {" ", "\t"}

RECURSIVE LStrip(_)
LStrip(s) == IF s # <<>> /\ IsSpace(Head(s)) THEN LStrip(Tail(s)) ELSE s

RECURSIVE RStrip(_)
RStrip(s) ==
    IF s # <<>> /\ IsSpace(s[Len(s)]) THEN RStrip(SubSeq(s, 1, Len(s) - 1)) ELSE s

\* lstrip in place of strip: trailing whitespace stays.
strip_left(s) == LStrip(s)

\* value.strip()
strip(s) == RStrip(LStrip(s))

\* series.str.strip() in place of the per-value lambda: a cell that is not
\* a string comes back as NaN.
strip_value_str_accessor(value) ==
    IF value.t = "str" THEN Str(strip(value.s)) ELSE NULL

\* lambda value: value.strip() if isinstance(value, str) else value
strip_value(value) == IF value.t = "str" THEN Str(strip(value.s)) ELSE value

\* pd.api.types.is_numeric_dtype
is_numeric_dtype(d) == d \in {"int64", "float64"}

\* pd.api.types.is_object_dtype(series) or pd.api.types.is_string_dtype(series)
is_object_or_string_dtype(d) == d \in {"object", "string"}

-----------------------------------------------------------------------------
(* DataFrame helpers *)

ColSet(df) == {df.cols[i] : i \in 1..Len(df.cols)}

Range(f) == {f[i] : i \in DOMAIN f}

\* The frame the DataFrame constructor builds from a list of rows: RangeIndex.
MkFrame(cols, dtype, rs) ==
    [cols |-> cols, dtype |-> dtype,
     rows |-> [i \in 1..Len(rs) |-> [idx |-> i - 1, cells |-> rs[i]]]]

\* df.reset_index(drop=True)
reset_index(df) ==
    [df EXCEPT !.rows = [i \in 1..Len(df.rows) |-> [df.rows[i] EXCEPT !.idx = i - 1]]]

\* df.drop(columns=col)
drop(df, col) ==
    LET keep == ColSet(df) \ {col}
    IN [cols |-> SelectSeq(df.cols, LAMBDA c : c # col),
        dtype |-> [c \in keep |-> df.dtype[c]],
        rows |-> [i \in 1..Len(df.rows) |->
                    [idx |-> df.rows[i].idx,
                     cells |-> [c \in keep |-> df.rows[i].cells[c]]]]]

\* df[columns]: the projection onto a list of columns, index kept.
project(df, columns) ==
    LET keep == Range(columns)
    IN [cols |-> columns,
        dtype |-> [c \in keep |-> df.dtype[c]],
        rows |-> [i \in 1..Len(df.rows) |->
                    [idx |-> df.rows[i].idx,
                     cells |-> [c \in keep |-> df.rows[i].cells[c]]]]]

\* diff.trim_whitespace
trim_whitespace(df) ==
    [df EXCEPT !.rows =
        [i \in 1..Len(df.rows) |->
            [df.rows[i] EXCEPT !.cells =
                [c \in ColSet(df) |->
                    IF is_object_or_string_dtype(df.dtype[c])
                    THEN strip_value(df.rows[i].cells[c])
                    ELSE df.rows[i].cells[c]]]]]

\* "trimmed = df" in place of "trimmed = df.copy()": the column assignments
\* land in the caller's table.
trim_whitespace_inplace(df) ==
    [ret |-> trim_whitespace(df), arg |-> trim_whitespace(df)]

\* A call trim_whitespace(df): the table returned and the table the caller
\* holds afterwards. The assignments trimmed[column] = ... go to the copy.
trim_whitespace_call(df) ==
    [ret |-> trim_whitespace(df), arg |-> df]

-----------------------------------------------------------------------------
(* DataFrame.merge(on=keys, how="outer", suffixes=("_a", "_b"),            *)
(* indicator=True), as pandas documents it: the union of the keys of both  *)
(* frames, keys sorted lexicographically, null keys matching each other,   *)
(* one joined row per pair of rows that share a key.                       *)

\* Code point of a character (of the characters used here).
ord(ch) ==
    CASE ch = "\t" -> 9 [] ch = " " -> 32 [] ch = "E" -> 69 [] ch = "N" -> 78
      [] ch = "U" -> 85 [] ch = "X" -> 88 [] ch = "x" -> 120 [] ch = "y" -> 121
      [] ch = "/" -> 47 [] ch = "0" -> 48 [] ch = "1" -> 49 [] ch = "2" -> 50
      [] ch = "a" -> 97 [] ch = "n" -> 110

RECURSIVE StrLt(_, _)
StrLt(s, u) ==
    IF u = <<>> THEN FALSE
    ELSE IF s = <<>> THEN TRUE
    ELSE IF Head(s) = Head(u) THEN StrLt(Tail(s), Tail(u))
    ELSE ord(Head(s)) < ord(Head(u))

\* Sort order of key cells: numbers by value, strings by code point, nulls last.
CellLt(c, d) ==
    IF isnull(d) THEN ~isnull(c)
    ELSE IF isnull(c) THEN FALSE
    ELSE IF c.t = "num" /\ d.t = "num" THEN c.n < d.n
    ELSE IF c.t = "str" /\ d.t = "str" THEN StrLt(c.s, d.s)
    ELSE c.t = "num"

RECURSIVE KeyLt(_, _)
KeyLt(k1, k2) ==
    IF k1 = <<>> \/ k2 = <<>> THEN FALSE
    ELSE IF Head(k1) = Head(k2) THEN KeyLt(Tail(k1), Tail(k2))
    ELSE CellLt(Head(k1), Head(k2))

RECURSIVE SortKeys(_)
SortKeys(S) ==
    IF S = {} THEN <<>>
    ELSE LET m == CHOOSE k \in S : \A j \in S \ {k} : KeyLt(k, j)
         IN <<m>> \o SortKeys(S \ {m})

\* The key combination of a row: its cells in the key columns, in key order.
KeyOf(cells, on) == [i \in 1..Len(on) |-> cells[on[i]]]

\* The key combinations occurring in a frame that has the key columns.
KeysOf(df, on) == {KeyOf(df.rows[i].cells, on) : i \in 1..Len(df.rows)}

\* Positions of the rows of df whose key combination is k, in row order.
RowsWithKey(df, on, k) ==
    SelectSeq([i \in 1..Len(df.rows) |-> i],
              LAMBDA i : KeyOf(df.rows[i].cells, on) = k)

\* merge raises KeyError when a key column is missing on either side.
merge_raises(left, right, on) ==
    \E k \in Range(on) : k \notin ColSet(left) \/ k \notin ColSet(right)

\* Name of a left / right non-key column in the merged frame: suffixed only
\* when the other side has a column of the same name.
left_name(left, right, c) == IF c \in ColSet(right) THEN c \o "_a" ELSE c
right_name(left, right, c) == IF c \in ColSet(left) THEN c \o "_b" ELSE c

\* A categorical cell of the indicator column.
Category(x) == [t |-> "str", n |-> 0, s |-> <<x>>]

\* The key cells always read from the left row: missing for right-only rows.
merged_cells_leftkey(left, right, on, li, ri, ind) ==
    LET K == Range(on)
        LNon == ColSet(left) \ K
        RNon == ColSet(right) \ K
        LNames == {left_name(left, right, c) : c \in LNon}
        RNames == {right_name(left, right, c) : c \in RNon}
    IN [mc \in K \cup LNames \cup RNames \cup {"_merge"} |->
          IF mc = "_merge" THEN Category(ind)
          ELSE IF mc \in K
               THEN (IF li # 0 THEN left.rows[li].cells[mc] ELSE NULL)
          ELSE IF mc \in LNames
               THEN (LET c == CHOOSE c \in LNon : left_name(left, right, c) = mc
                     IN IF li # 0 THEN left.rows[li].cells[c] ELSE NULL)
          ELSE (LET c == CHOOSE c \in RNon : right_name(left, right, c) = mc
                IN IF ri # 0 THEN right.rows[ri].cells[c] ELSE NULL)]

\* The merged row of left row li and right row ri (0: no row on that side).
merged_cells(left, right, on, li, ri, ind) ==
    LET K == Range(on)
        LNon == ColSet(left) \ K
        RNon == ColSet(right) \ K
        LNames == {left_name(left, right, c) : c \in LNon}
        RNames == {right_name(left, right, c) : c \in RNon}
    IN [mc \in K \cup LNames \cup RNames \cup {"_merge"} |->
          IF mc = "_merge" THEN Category(ind)
          ELSE IF mc \in K
               THEN (IF li # 0 THEN left.rows[li].cells[mc] ELSE right.rows[ri].cells[mc])
          ELSE IF mc \in LNames
               THEN (LET c == CHOOSE c \in LNon : left_name(left, right, c) = mc
                     IN IF li # 0 THEN left.rows[li].cells[c] ELSE NULL)
          ELSE (LET c == CHOOSE c \in RNon : right_name(left, right, c) = mc
                IN IF ri # 0 THEN right.rows[ri].cells[c] ELSE NULL)]

\* how="left" in place of how="outer": keys of the right frame alone are lost.
key_group_left(left, right, on, k) ==
    LET li == RowsWithKey(left, on, k)
        ri == RowsWithKey(right, on, k)
    IN IF li # <<>> /\ ri # <<>>
       THEN [p \in 1..(Len(li) * Len(ri)) |->
                merged_cells(left, right, on, li[((p - 1) \div Len(ri)) + 1],
                             ri[((p - 1) % Len(ri)) + 1], "both")]
       ELSE IF li # <<>>
       THEN [p \in 1..Len(li) |-> merged_cells(left, right, on, li[p], 0, "left_only")]
       ELSE <<>>

\* Each left row joined with the first right row of its key only: repeated
\* keys of the right frame are collapsed.
key_group_first(left, right, on, k) ==
    LET li == RowsWithKey(left, on, k)
        ri == RowsWithKey(right, on, k)
    IN IF li # <<>> /\ ri # <<>>
       THEN [p \in 1..Len(li) |->
                merged_cells(left, right, on, li[p], ri[1], "both")]
       ELSE IF li # <<>>
       THEN [p \in 1..Len(li) |-> merged_cells(left, right, on, li[p], 0, "left_only")]
       ELSE [p \in 1..Len(ri) |-> merged_cells(left, right, on, 0, ri[p], "right_only")]

\* The joined rows of one key combination: the cross product of the left
\* and right rows that carry it, or the rows of the only side that has it.
key_group(left, right, on, k) ==
    LET li == RowsWithKey(left, on, k)
        ri == RowsWithKey(right, on, k)
    IN IF li # <<>> /\ ri # <<>>
       THEN [p \in 1..(Len(li) * Len(ri)) |->
                merged_cells(left, right, on, li[((p - 1) \div Len(ri)) + 1],
                             ri[((p - 1) % Len(ri)) + 1], "both")]
       ELSE IF li # <<>>
       THEN [p \in 1..Len(li) |-> merged_cells(left, right, on, li[p], 0, "left_only")]
       ELSE [p \in 1..Len(ri) |-> merged_cells(left, right, on, 0, ri[p], "right_only")]

RECURSIVE merge_rows(_, _, _, _)
merge_rows(left, right, on, ks) ==
    IF ks = <<>> THEN <<>>
    ELSE key_group(left, right, on, Head(ks)) \o merge_rows(left, right, on, Tail(ks))

\* An int64 column that receives missing markers becomes float64.
upcast(d, cells) == IF d = "int64" /\ \E c \in cells : isnull(c) THEN "float64" ELSE d

merge(left, right, on) ==
    LET K == Range(on)
        LCols == [i \in 1..Len(left.cols) |->
                    IF left.cols[i] \in K THEN left.cols[i]
                    ELSE left_name(left, right, left.cols[i])]
        RNonSeq == SelectSeq(right.cols, LAMBDA c : c \notin K)
        RCols == [i \in 1..Len(RNonSeq) |-> right_name(left, right, RNonSeq[i])]
        cs == merge_rows(left, right, on, SortKeys(KeysOf(left, on) \cup KeysOf(right, on)))
        column(mc) == {cs[i][mc] : i \in 1..Len(cs)}
        dt(mc) ==
            IF mc = "_merge" THEN "category"
            ELSE IF mc \in K THEN left.dtype[mc]
            ELSE IF \E c \in ColSet(left) \ K : left_name(left, right, c) = mc
                 THEN left.dtype[CHOOSE c \in ColSet(left) \ K : left_name(left, right, c) = mc]
            ELSE right.dtype[CHOOSE c \in ColSet(right) \ K : right_name(left, right, c) = mc]
    IN [cols |-> LCols \o RCols \o <<"_merge">>,
        dtype |-> [mc \in Range(LCols) \cup Range(RCols) \cup {"_merge"} |->
                      upcast(dt(mc), column(mc))],
        rows |-> [i \in 1..Len(cs) |-> [idx |-> i - 1, cells |-> cs[i]]]]

\* merged.query("_merge == '<ind>'"): the rows with that indicator, labels kept.
query(merged, ind) ==
    [merged EXCEPT !.rows =
        SelectSeq(merged.rows, LAMBDA r : r.cells["_merge"] = Category(ind))]

-----------------------------------------------------------------------------
(* Delta._build_diff_frames *)

\* ">=" in place of "<=": values count as equal when they are at least the
\* band apart.
equal_num_reversed(a, b, abs_tol, rel_tol) ==
    /\ ~isnull(a)
    /\ ~isnull(b)
    /\ 10000 * Abs(a.n - b.n) >= 10000 * abs_tol + rel_tol * Abs(b.n)

\* The difference without .abs(): a value below its partner is always equal.
equal_num_signed(a, b, abs_tol, rel_tol) ==
    /\ ~isnull(a)
    /\ ~isnull(b)
    /\ 10000 * (a.n - b.n) <= 10000 * abs_tol + rel_tol * Abs(b.n)

\* "<" in place of "<=": the bound itself counts as a difference.
equal_num_strict(a, b, abs_tol, rel_tol) ==
    /\ ~isnull(a)
    /\ ~isnull(b)
    /\ 10000 * Abs(a.n - b.n) < 10000 * abs_tol + rel_tol * Abs(b.n)

\* (both[col_a] - both[col_b]).abs() <= abs_tol + rel_tol * both[col_b].abs()
\* A comparison with NaN on either side is False.
equal_num(a, b, abs_tol, rel_tol) ==
    /\ ~isnull(a)
    /\ ~isnull(b)
    /\ 10000 * Abs(a.n - b.n) <= 10000 * abs_tol + rel_tol * Abs(b.n)

\* Python's own "!=" in place of the elementwise one: None equals None.
not_equal_python(a, b) == a # b

\* both[col_a] != both[col_b] on object columns: True when either is null.
not_equal(a, b) == isnull(a) \/ isnull(b) \/ a # b

\* for base in (c[:-2] for c in both.columns if c.endswith("_a"))
\* (input column names carry no "_a" or "_b" ending of their own).
BaseNames == {"id", "region", "value", "label"}

compared_bases(both) == {base \in BaseNames : (base \o "_a") \in ColSet(both)}

\* "&=" in place of "|=": a row counts only when every column differs.
diff_mask_all(both, cells, abs_tol, rel_tol) ==
    /\ compared_bases(both) # {}
    /\ \A base \in compared_bases(both) :
        LET col_a == base \o "_a"
            col_b == base \o "_b"
        IN IF is_numeric_dtype(both.dtype[col_a])
           THEN ~equal_num(cells[col_a], cells[col_b], abs_tol, rel_tol)
           ELSE not_equal(cells[col_a], cells[col_b])

\* The value of diff_mask for one row of both after the loop.
diff_mask(both, cells, abs_tol, rel_tol) ==
    \E base \in compared_bases(both) :
        LET col_a == base \o "_a"
            col_b == base \o "_b"
        IN IF is_numeric_dtype(both.dtype[col_a])
           THEN ~equal_num(cells[col_a], cells[col_b], abs_tol, rel_tol)
           ELSE not_equal(cells[col_a], cells[col_b])

\* both.loc[diff_mask]
loc_mask(both, abs_tol, rel_tol) ==
    [both EXCEPT !.rows =
        SelectSeq(both.rows, LAMBDA r : diff_mask(both, r.cells, abs_tol, rel_tol))]

\* The query of unmatched_a copied without changing the indicator.
unmatched_b_copied(merged) == drop(query(merged, "left_only"), "_merge")

unmatched_a_of(merged) == drop(query(merged, "left_only"), "_merge")
unmatched_b_of(merged) == drop(query(merged, "right_only"), "_merge")
both_of(merged) == drop(query(merged, "both"), "_merge")
mismatches_of(both, abs_tol, rel_tol) == reset_index(loc_mask(both, abs_tol, rel_tol))

\* changed as its docstring has it: only the rows where the column differs.
changed_result_filtered(mm, on, column) ==
    LET p == project(mm, on \o <<column \o "_a", column \o "_b">>)
    IN [p EXCEPT !.rows =
          SelectSeq(p.rows, LAMBDA r : not_equal(r.cells[column \o "_a"],
                                                 r.cells[column \o "_b"]))]

\* Delta.changed: self.mismatches[self.keys + [col_a, col_b]]
changed_columns(on, column) == on \o <<column \o "_a", column \o "_b">>
changed_raises(mm, on, column) == ~(Range(changed_columns(on, column)) \subseteq ColSet(mm))
changed_result(mm, on, column) == project(mm, changed_columns(on, column))


-----------------------------------------------------------------------------
(* Delta.to_html *)

\* len(df)
len(df) == Len(df.rows)

\* The row limit of the tables of the report: .head(50).
HeadRows == 50

\* No truncation: the whole table in place of its first n rows.
head_whole(df, n) == df

\* df.head(n)
head(df, n) ==
    [df EXCEPT !.rows = SubSeq(df.rows, 1, IF Len(df.rows) < n THEN Len(df.rows) ELSE n)]

\* df.to_html(index=False, classes="table"): the header and the cells of
\* the rows, without the index.
to_html_table(df) ==
    [header |-> df.cols,
     body |-> [i \in 1..Len(df.rows) |-> df.rows[i].cells]]

\* template.render(...): the three counts of the summary, then one titled
\* section for each table whose count is positive.
render(ua, ub, mm) ==
    LET section(title, df) ==
            IF len(df) > 0
            THEN <<[title |-> title, table |-> to_html_table(head(df, HeadRows))]>>
            ELSE <<>>
    IN [unmatched_a_count |-> len(ua),
        unmatched_b_count |-> len(ub),
        mismatches_count |-> len(mm),
        sections |-> section("Rows in A only (Top 50)", ua)
                        \o section("Rows in B only (Top 50)", ub)
                        \o section("Mismatches (Top 50)", mm)]

\* No report text: the value None, and a file that was not written.
NoText ==
    [unmatched_a_count |-> -1, unmatched_b_count |-> -1, mismatches_count |-> -1,
     sections |-> <<>>]

\* to_html(path): the value returned and the text written to path.
to_html(ua, ub, mm, path) ==
    LET text == render(ua, ub, mm)
    IN IF path # ""
       THEN [kind |-> "returned", path |-> path, ret |-> NoText, written |-> text]
       ELSE [kind |-> "returned", path |-> path, ret |-> text, written |-> NoText]

-----------------------------------------------------------------------------
(* Delta.__init__ *)

\* An attribute that has not been assigned.
NoFrame == [cols |-> <<>>, dtype |-> <<>>, rows |-> <<>>]

\* The KeyError of the merge swallowed: empty result tables in its place.
Delta_swallow(a, b, on, atol, rtol) ==
    LET self_df_a == trim_whitespace(a)
        self_df_b == trim_whitespace(b)
    IN IF merge_raises(self_df_a, self_df_b, on)
       THEN [raised |-> "none", df_a |-> self_df_a, df_b |-> self_df_b,
             unmatched_a |-> NoFrame, unmatched_b |-> NoFrame,
             both |-> NoFrame, mismatches |-> NoFrame]
       ELSE LET merged == merge(self_df_a, self_df_b, on)
                bothf == both_of(merged)
            IN [raised |-> "none", df_a |-> self_df_a, df_b |-> self_df_b,
                unmatched_a |-> unmatched_a_of(merged),
                unmatched_b |-> unmatched_b_of(merged),
                both |-> bothf,
                mismatches |-> mismatches_of(bothf, atol, rtol)]

\* merge raises ValueError ("You are trying to merge on int64 and object
\* columns") when a key column is numeric on one side and holds text on the
\* other, unless exactly one of the frames has no rows or both have none.
merge_dtype_raises(left, right, on) ==
    /\ left.rows # <<>>
    /\ right.rows # <<>>
    /\ \E k \in Range(on) :
          is_numeric_dtype(left.dtype[k]) # is_numeric_dtype(right.dtype[k])

\* both[col_a] - both[col_b] raises TypeError when col_a is numeric and a
\* row of col_b holds text (a missing value there is NaN and subtracts).
subtract_raises(bothf) ==
    \E base \in compared_bases(bothf) :
        /\ is_numeric_dtype(bothf.dtype[base \o "_a"])
        /\ \E i \in 1..Len(bothf.rows) : bothf.rows[i].cells[base \o "_b"].t = "str"

\* _build_diff_frames from the merged frame on: the loop over the compared
\* columns raises before mismatches is assigned, or runs through.
built(self_df_a, self_df_b, merged, bothf, atol, rtol) ==
    [raised |-> IF subtract_raises(bothf) THEN "TypeError" ELSE "none",
     df_a |-> self_df_a, df_b |-> self_df_b,
     unmatched_a |-> unmatched_a_of(merged),
     unmatched_b |-> unmatched_b_of(merged),
     both |-> bothf,
     mismatches |-> IF subtract_raises(bothf) THEN NoFrame
                    ELSE mismatches_of(bothf, atol, rtol)]

\* The object __init__ leaves behind, with the exception (if any) it raised.
Delta(a, b, on, atol, rtol) ==
    LET self_df_a == trim_whitespace(a)
        self_df_b == trim_whitespace(b)
    IN IF merge_raises(self_df_a, self_df_b, on)
       THEN [raised |-> "KeyError", df_a |-> self_df_a, df_b |-> self_df_b,
             unmatched_a |-> NoFrame, unmatched_b |-> NoFrame,
             both |-> NoFrame, mismatches |-> NoFrame]
       ELSE IF merge_dtype_raises(self_df_a, self_df_b, on)
       THEN [raised |-> "ValueError", df_a |-> self_df_a, df_b |-> self_df_b,
             unmatched_a |-> NoFrame, unmatched_b |-> NoFrame,
             both |-> NoFrame, mismatches |-> NoFrame]
       ELSE LET merged == merge(self_df_a, self_df_b, on)
            IN built(self_df_a, self_df_b, merged, both_of(merged), atol, rtol)

-----------------------------------------------------------------------------
(* check.py: rule texts. A text is the sequence of its words (the pieces    *)
(* between whitespace, each punctuation mark a word of its own); "in",      *)
(* startswith, split and the regular expressions are read word by word.     *)

\* str.lower(), on the words used here.
lower(w) ==
    CASE w = "Column" -> "column"
      [] w = "Unique" -> "unique"
      [] w = "Rows" -> "rows"
      [] w = "ROWS" -> "rows"
      [] w = "MUST" -> "must"
      [] w = "SATISFY" -> "satisfy"
      [] OTHER -> w

lowered_words(ws) == [i \in 1..Len(ws) |-> lower(ws[i])]

\* str.startswith
startswith(ws, prefix) ==
    Len(ws) >= Len(prefix) /\ SubSeq(ws, 1, Len(prefix)) = prefix

\* Position of the first word of ws that is in W at or after position from;
\* 0 when there is none.
find(ws, W, from) ==
    LET I == {i \in from..Len(ws) : ws[i] \in W}
    IN IF I = {} THEN 0 ELSE CHOOSE i \in I : \A j \in I : i <= j

\* The words of ws after position i.
rest(ws, i) == SubSeq(ws, i + 1, Len(ws))

\* re.split(r"[,;]|\band\b", body, flags=re.IGNORECASE)
RECURSIVE split_tokens(_)
split_tokens(ws) ==
    LET cut == find(lowered_words(ws), {",", ";", "and"}, 1)
    IN IF cut = 0 THEN <<ws>>
       ELSE <<SubSeq(ws, 1, cut - 1)>> \o split_tokens(rest(ws, cut))

\* Position of the first word of A that a word of B follows; 0 if none.
find_phrase(ws, A, B) ==
    LET I == {i \in 1..(Len(ws) - 1) : ws[i] \in A /\ ws[i + 1] \in B}
    IN IF I = {} THEN 0 ELSE CHOOSE i \in I : \A j \in I : i <= j

\* " ".join(words)
RECURSIVE join(_)
join(ws) ==
    IF ws = <<>> THEN ""
    ELSE IF Len(ws) = 1 THEN ws[1]
    ELSE ws[1] \o " " \o join(Tail(ws))

\* ColumnExpectation(name=name)
ColumnExpectation(name) ==
    [name |-> name, unique |-> FALSE, dtype |-> "None", fmt |-> <<>>,
     allowed_values |-> {}, regex |-> "None", allow_nulls |-> "None"]

\* RowRule(description, expression)
RowRule(description, expression) ==
    [description |-> description, expression |-> expression]

\* _extract_dtype
_extract_dtype(token) ==
    IF \E i \in 1..Len(token) : token[i] \in {"integer", "int"} THEN "integer"
    ELSE IF \E i \in 1..Len(token) : token[i] \in {"float", "double", "numeric"}
         THEN "float"
    ELSE IF \E i \in 1..Len(token) : token[i] \in {"string", "text"} THEN "string"
    ELSE IF \E i \in 1..Len(token) : token[i] \in {"datetime", "date"}
         THEN "datetime"
    ELSE "None"

\* The words after position at, if there are any.
words_after(token, at) == IF at # 0 /\ at < Len(token) THEN rest(token, at) ELSE <<>>

\* _extract_format: the text after the word format, or no format.
_extract_format(token) == words_after(token, find(lowered_words(token), {"format"}, 1))

\* The marks str.strip("{}[]()") removes and the separators of the values.
Marks == {"{", "}", "[", "]", "(", ")", ",", "or"}

\* The words of tail before position stop (all of them when stop is 0),
\* without the marks.
values_before(tail, stop) ==
    {tail[i] : i \in 1..(IF stop = 0 THEN Len(tail) ELSE stop - 1)} \ Marks

\* The values that follow position start of the token, up to the first
\* ";" or "and"; none when start is 0.
values_from(token, start) ==
    IF start = 0 THEN {}
    ELSE values_before(rest(token, start),
                       find(lowered_words(rest(token, start)), {";", "and"}, 1))

\* The place of the second word of a phrase at position at, if words follow.
phrase_end(token, at) == IF at # 0 /\ at + 1 < Len(token) THEN at + 1 ELSE 0

\* _extract_allowed_values: the values after "allowed value(s)" or, failing
\* that, after "value(s) in"; the empty set for None.
_extract_allowed_values(token) ==
    values_from(token,
        IF phrase_end(token, find_phrase(lowered_words(token), {"allowed"},
                                         {"value", "values"})) # 0
        THEN find_phrase(lowered_words(token), {"allowed"}, {"value", "values"}) + 1
        ELSE phrase_end(token, find_phrase(lowered_words(token), {"value", "values"},
                                           {"in"})))

\* The word after position at, if there is one.
word_after(token, at) == IF at # 0 /\ at < Len(token) THEN token[at + 1] ELSE "None"

\* _extract_regex: the pattern after "regex", "match" or "matches".
_extract_regex(token) ==
    word_after(token,
               IF \E i \in 1..Len(token) : lower(token[i]) = "regex"
               THEN find(lowered_words(token), {"regex"}, 1)
               ELSE find(lowered_words(token), {"match", "matches"}, 1))

\* "if x is not None: expectation.field = x"
assigned(new, none, old) == IF new # none THEN new ELSE old

\* The body of the loop of _parse_column_body for one token.
parse_token(expectation, token, lowered) ==
    IF token = <<>> THEN expectation
    ELSE IF \E i \in 1..Len(lowered) : lowered[i] = "unique"
         THEN [expectation EXCEPT !.unique = TRUE]
    ELSE IF \/ find_phrase(lowered, {"not", "no"}, {"null", "nulls"}) # 0
            \/ \E i \in 1..Len(lowered) : lowered[i] \in {"non-null", "non-nulls"}
         THEN [expectation EXCEPT !.allow_nulls = "False"]
    ELSE IF find_phrase(lowered, {"allow"}, {"null", "nulls"}) # 0
         THEN [expectation EXCEPT !.allow_nulls = "True"]
    ELSE [expectation EXCEPT
             !.dtype = assigned(_extract_dtype(lowered), "None", @),
             !.fmt = assigned(_extract_format(token), <<>>, @),
             !.allowed_values = IF @ = {} THEN _extract_allowed_values(token) ELSE @,
             !.regex = assigned(_extract_regex(token), "None", @)]

RECURSIVE parse_tokens(_, _)
parse_tokens(expectation, tokens) ==
    IF tokens = <<>> THEN expectation
    ELSE parse_tokens(parse_token(expectation, Head(tokens),
                                  lowered_words(Head(tokens))),
                      Tail(tokens))

\* _parse_column_body
_parse_column_body(name, body) ==
    parse_tokens([ColumnExpectation(name) EXCEPT
                     !.allowed_values = _extract_allowed_values(body)],
                 split_tokens(body))

\* The words a column name is made of: [\w .-]+
is_name(w) == w \notin Marks \cup {":", ";", ">=", ">", "<", "<=", "==", "!="}

\* The column_match of _parse_expectations: the place of the first word
\* "column" that a name and a body follow, 0 when the pattern finds none.
column_match(line) ==
    LET I == {i \in 1..(Len(line) - 2) : lower(line[i]) = "column" /\ is_name(line[i + 1])}
    IN IF I = {} THEN 0 ELSE CHOOSE i \in I : \A j \in I : i <= j

\* The words before position first and after it.
without(ws, first) ==
    IF first = 0 THEN ws ELSE SubSeq(ws, 1, first - 1) \o rest(ws, first)

\* name and body of a line the pattern matched at position at.
matched(line, at) ==
    [name |-> line[at + 1],
     body |-> rest(line, IF lower(line[at + 2]) \in {"to", ":"} /\ Len(line) >= at + 3
                         THEN at + 2 ELSE at + 1)]

\* name, body = line.split(":", maxsplit=1); name.replace("column", "", 1)
split_at_colon(line, colon) ==
    [name |-> join(without(SubSeq(line, 1, colon - 1),
                           find(SubSeq(line, 1, colon - 1), {"column"}, 1))),
     body |-> rest(line, colon)]

\* expectation = _parse_column_body(name, body)
parse_name_body(nb) == _parse_column_body(nb.name, nb.body)

\* The expectation of one line that is not a row rule and holds the word
\* column before a name and a body, or a colon.
parse_column_line(line) ==
    parse_name_body(IF column_match(line) # 0 THEN matched(line, column_match(line))
                    ELSE split_at_colon(line, find(line, {":"}, 1)))

\* text.split(word, maxsplit=1)[1].strip(): IndexError when the word is in
\* the lower-cased text only.
split_after(text, word) ==
    IF find(text, {word}, 1) = 0
    THEN [raised |-> "IndexError", rule |-> RowRule(text, <<>>)]
    ELSE [raised |-> "none", rule |-> RowRule(text, rest(text, find(text, {word}, 1)))]

\* One rule text of _parse_row_rules.
parse_row_rule(text) ==
    IF \E i \in 1..Len(text) : lower(text[i]) = "satisfy" THEN split_after(text, "satisfy")
    ELSE IF \E i \in 1..Len(text) : lower(text[i]) = "must" THEN split_after(text, "must")
    ELSE [raised |-> "none", rule |-> RowRule(text, text)]

\* The outcome of a loop whose first step gave first and whose further
\* steps gave others: the first exception, or all results in order.
then_rules(first, others) ==
    IF first.raised # "none" THEN [raised |-> first.raised, rules |-> <<>>]
    ELSE IF others.raised # "none" THEN others
    ELSE [raised |-> "none", rules |-> <<first.rule>> \o others.rules]

\* _parse_row_rules: the rules of the texts that are not empty, or the
\* exception the first failing text raises.
RECURSIVE _parse_row_rules(_)
_parse_row_rules(rules) ==
    IF rules = <<>> THEN [raised |-> "none", rules |-> <<>>]
    ELSE IF Head(rules) = <<>> THEN _parse_row_rules(Tail(rules))
    ELSE then_rules(parse_row_rule(Head(rules)), _parse_row_rules(Tail(rules)))

\* lowered.startswith(("rows must", "every row must", "expect rows"))
is_row_rule_line(lowered) ==
    \/ startswith(lowered, <<"rows", "must">>)
    \/ startswith(lowered, <<"every", "row", "must">>)
    \/ startswith(lowered, <<"expect", "rows">>)

\* row_rules.extend(_parse_row_rules([line]))
with_row_rule(first, others) ==
    IF first.raised # "none"
    THEN [raised |-> first.raised, column_expectations |-> <<>>, row_rules |-> <<>>]
    ELSE [others EXCEPT !.row_rules = first.rules \o @]

\* column_expectations.append(expectation)
with_column(expectation, others) ==
    [others EXCEPT !.column_expectations = <<expectation>> \o @]

\* _parse_expectations: column expectations and row rules in the order of
\* the lines; a line that yields no column name is ignored.
RECURSIVE _parse_expectations(_)
_parse_expectations(lines) ==
    IF lines = <<>>
    THEN [raised |-> "none", column_expectations |-> <<>>, row_rules |-> <<>>]
    ELSE IF Head(lines) = <<>> THEN _parse_expectations(Tail(lines))
    ELSE IF is_row_rule_line(lowered_words(Head(lines)))
    THEN with_row_rule(_parse_row_rules(<<Head(lines)>>),
                       _parse_expectations(Tail(lines)))
    ELSE IF column_match(Head(lines)) = 0 /\ find(Head(lines), {":"}, 1) = 0
    THEN _parse_expectations(Tail(lines))
    ELSE with_column(parse_column_line(Head(lines)), _parse_expectations(Tail(lines)))

-----------------------------------------------------------------------------
(* check.py: _validate_column *)

\* ColumnResult(column, passed, diagnostics)
ColumnResult(column, passed, diagnostics) ==
    [column |-> column, passed |-> passed, diagnostics |-> diagnostics]

\* One diagnostic text: its leading words, the row labels and the sample
\* values it lists, and what follows them.
Diagnostic(text, rows, samples, detail) ==
    [text |-> text, rows |-> rows, samples |-> samples, detail |-> detail]

\* series.index[mask]: the labels of the rows of df that satisfy mask.
index_where(df, mask(_)) ==
    LET hit == SelectSeq(df.rows, LAMBDA r : mask(r))
    IN [i \in 1..Len(hit) |-> hit[i].idx]

\* series[mask].head(5).tolist() under a rendering of the values.
samples_where(df, name, mask(_), show(_)) ==
    LET hit == SelectSeq(df.rows, LAMBDA r : mask(r))
    IN [i \in 1..(IF Len(hit) < 5 THEN Len(hit) ELSE 5) |-> show(hit[i].cells[name])]

\* "".join(chars)
RECURSIVE concat(_)
concat(s) == IF s = <<>> THEN "" ELSE Head(s) \o concat(Tail(s))

\* str(x) of a float given in hundredths: 10.0, -5.0, 100.25, 0.5
float_str(n) ==
    LET h == Abs(n) % 100
    IN (IF n < 0 THEN "-" ELSE "") \o ToString(Abs(n) \div 100) \o "."
        \o (IF h % 10 = 0 THEN ToString(h \div 10)
            ELSE IF h < 10 THEN "0" \o ToString(h) ELSE ToString(h))

\* str(x) of an int given in hundredths
int_str(n) == (IF n < 0 THEN "-" ELSE "") \o ToString(Abs(n) \div 100)

\* series.astype(str), for one cell of a column of the given dtype
astype_str(cell, dtype) ==
    IF cell.t = "str" THEN concat(cell.s)
    ELSE IF cell.t = "null" THEN IF dtype = "object" THEN "None" ELSE "nan"
    ELSE IF dtype = "float64" \/ cell.n % 100 # 0 THEN float_str(cell.n)
    ELSE int_str(cell.n)

IsDigit(ch) == \E d \in 0..9 : ToString(d) = ch

RECURSIVE digits_value(_)
digits_value(s) ==
    IF s = <<>> THEN 0
    ELSE 10 * digits_value(SubSeq(s, 1, Len(s) - 1))
            + (CHOOSE d \in 0..9 : ToString(d) = s[Len(s)])

RECURSIVE pow10(_)
pow10(k) == IF k = 0 THEN 1 ELSE 10 * pow10(k - 1)

\* A float64 value: its floor and what lies above it, in units of 1e-9.
Float(whole, frac) == [t |-> "num", whole |-> whole, frac |-> frac]

\* NaN
NaN == [t |-> "null", whole |-> 0, frac |-> 0]

\* Position of the decimal point of a text, 0 when it has none.
point(s) == IF \E i \in 1..Len(s) : s[i] = "." THEN CHOOSE i \in 1..Len(s) : s[i] = "." ELSE 0

\* The texts read as numbers: digits, or digits "." digits with at most
\* nine digits after the point (the numeric texts among the inputs).
IsNumberText(s) ==
    /\ s # <<>>
    /\ \A i \in 1..Len(s) : IsDigit(s[i]) \/ i = point(s)
    /\ point(s) # 0 => point(s) \in 2..(Len(s) - 1) /\ Len(s) - point(s) <= 9

\* The float a numeric text stands for.
parse_float(s) ==
    IF point(s) = 0 THEN Float(digits_value(s), 0)
    ELSE Float(digits_value(SubSeq(s, 1, point(s) - 1)),
               digits_value(SubSeq(s, point(s) + 1, Len(s)))
                    * pow10(9 - (Len(s) - point(s))))

\* pd.to_numeric(series, errors="coerce"), for one cell: numbers as they
\* are (a cell counts hundredths), numeric texts as their number, anything
\* else NaN.
to_numeric(cell) ==
    IF cell.t = "num"
    THEN Float(cell.n \div 100, (cell.n % 100) * pow10(7))
    ELSE IF cell.t = "str" /\ IsNumberText(cell.s) THEN parse_float(cell.s)
    ELSE NaN

\* (converted % 1).fillna(0), for one converted value, in units of 1e-9
fractional(converted) == IF converted.t = "null" THEN 0 ELSE converted.frac

\* np.isclose(fractional, 0): |fractional - 0| <= atol + rtol * |0| with
\* atol = 1e-08, which is 10 units of 1e-9
isclose_zero(fraction) == Abs(fraction) <= 10

\* The date texts pd.to_datetime parses under format %Y-%m-%d.
ValidDates == {"2024-01-01", "2024-01-03"}

\* invalid_mask without "series.notna() &": a missing value converts to NaN
\* and counts as invalid.
dtype_invalid_nulls(cell, dtype) ==
    IF dtype = "integer"
    THEN isnull(to_numeric(cell)) \/ ~isclose_zero(fractional(to_numeric(cell)))
    ELSE IF dtype = "float" THEN isnull(to_numeric(cell))
    ELSE IF dtype = "string" THEN cell.t # "str"
    ELSE IF dtype = "datetime" THEN ~(cell.t = "str" /\ concat(cell.s) \in ValidDates)
    ELSE FALSE

\* invalid_mask of _dtype_diagnostics, for one cell
dtype_invalid(cell, dtype) ==
    /\ ~isnull(cell)
    /\ IF dtype = "integer"
       THEN isnull(to_numeric(cell)) \/ ~isclose_zero(fractional(to_numeric(cell)))
       ELSE IF dtype = "float" THEN isnull(to_numeric(cell))
       ELSE IF dtype = "string" THEN cell.t # "str"
       ELSE IF dtype = "datetime"
            THEN ~(cell.t = "str" /\ concat(cell.s) \in ValidDates)
       ELSE FALSE

\* One diagnostic for the rows of df that satisfy mask, if there are any:
\* their labels and the first five of their values in column name.
diagnose(df, name, mask(_), text, show(_), detail) ==
    IF \E i \in 1..Len(df.rows) : mask(df.rows[i])
    THEN <<Diagnostic(text, index_where(df, mask),
                      samples_where(df, name, mask, show), detail)>>
    ELSE <<>>

\* _dtype_diagnostics
_dtype_diagnostics(df, expectation) ==
    diagnose(df, expectation.name,
             LAMBDA r : dtype_invalid(r.cells[expectation.name], expectation.dtype),
             "expected " \o expectation.dtype,
             LAMBDA c : astype_str(c, df.dtype[expectation.name]),
             IF expectation.dtype = "datetime" /\ expectation.fmt # <<>>
             THEN "format=" \o join(expectation.fmt) ELSE "")

\* The patterns re.compile rejects with re.error.
InvalidPatterns == {"[", "("}

\* pattern.fullmatch(value) on the text series.astype(str) gives for the
\* cell, for the patterns of the rule texts: ".*", "\d+", or a text without
\* special characters. A number is written with digits only when it is a
\* non-negative whole number of a column that is not float64.
fullmatch(pattern, value, dtype) ==
    IF pattern = ".*" THEN TRUE
    ELSE IF pattern = "\\d+"
         THEN IF value.t = "num"
              THEN dtype # "float64" /\ value.n % 100 = 0 /\ value.n >= 0
              ELSE value.s # <<>> /\ \A i \in 1..Len(value.s) : IsDigit(value.s[i])
    ELSE astype_str(value, dtype) = pattern

\* keep="first" in place of keep=False: only the repeats are marked.
duplicated_first(df, name, r) ==
    \E i \in 1..Len(df.rows) :
        df.rows[i].idx < r.idx /\ df.rows[i].cells[name] = r.cells[name]

\* series.duplicated(keep=False), for one row: its value occurs in another
\* row as well (missing values count as equal to each other).
duplicated(df, name, r) ==
    \E i \in 1..Len(df.rows) :
        df.rows[i].idx # r.idx /\ df.rows[i].cells[name] = r.cells[name]

\* The early return left out: a rule for a column the table lacks passes.
missing_skipped(name) == ColumnResult(name, TRUE, <<>>)

\* diagnostics.append("column missing"); return ColumnResult(..., passed=False, ...)
missing(name) ==
    ColumnResult(name, FALSE, <<Diagnostic("column missing", <<>>, <<>>, "")>>)

\* The diagnostic of the nullability check.
null_diagnostics(df, expectation) ==
    IF expectation.allow_nulls = "False"
          /\ \E i \in 1..Len(df.rows) : isnull(df.rows[i].cells[expectation.name])
    THEN <<Diagnostic("nulls forbidden",
                      index_where(df, LAMBDA r : isnull(r.cells[expectation.name])),
                      <<>>, "")>>
    ELSE <<>>

\* The diagnostic of the uniqueness check.
unique_diagnostics(df, expectation) ==
    IF expectation.unique
    THEN diagnose(df, expectation.name,
                  LAMBDA r : duplicated(df, expectation.name, r),
                  "expected unique values; duplicate", LAMBDA c : c, "")
    ELSE <<>>

\* The diagnostic of the allowed-values check.
allowed_diagnostics(df, expectation) ==
    IF expectation.allowed_values # {}
    THEN diagnose(df, expectation.name,
                  LAMBDA r : /\ ~isnull(r.cells[expectation.name])
                             /\ astype_str(r.cells[expectation.name],
                                           df.dtype[expectation.name])
                                    \notin expectation.allowed_values,
                  "unexpected values",
                  LAMBDA c : astype_str(c, df.dtype[expectation.name]), "")
    ELSE <<>>

\* The diagnostic of the pattern check.
regex_diagnostics(df, expectation) ==
    IF expectation.regex # "None"
    THEN diagnose(df, expectation.name,
                  LAMBDA r : /\ ~isnull(r.cells[expectation.name])
                             /\ ~fullmatch(expectation.regex,
                                           r.cells[expectation.name],
                                           df.dtype[expectation.name]),
                  "regex mismatch",
                  LAMBDA c : astype_str(c, df.dtype[expectation.name]),
                  expectation.regex)
    ELSE <<>>

\* passed = not diagnostics
checked(name, diagnostics) ==
    [raised |-> "none", result |-> ColumnResult(name, diagnostics = <<>>, diagnostics)]

\* _validate_column: the result, or the exception re.compile raises.
_validate_column(df, expectation) ==
    IF expectation.name \notin ColSet(df)
    THEN [raised |-> "none", result |-> missing(expectation.name)]
    ELSE IF expectation.regex # "None" /\ expectation.regex \in InvalidPatterns
    THEN [raised |-> "re.error", result |-> ColumnResult(expectation.name, FALSE, <<>>)]
    ELSE checked(expectation.name,
                 null_diagnostics(df, expectation)
                    \o unique_diagnostics(df, expectation)
                    \o (IF expectation.dtype # "None"
                        THEN _dtype_diagnostics(df, expectation) ELSE <<>>)
                    \o allowed_diagnostics(df, expectation)
                    \o regex_diagnostics(df, expectation))

-----------------------------------------------------------------------------
(* check.py: _validate_row_rule *)

\* A message: None, or a text with the list of row labels it ends with.
None == [t |-> "None", s |-> "", rows |-> <<>>]
Text(s) == [t |-> "str", s |-> s, rows |-> <<>>]
TextRows(s, rows) == [t |-> "str", s |-> s, rows |-> rows]

\* bool(message): None and the empty text are false.
truthy(message) == message.t = "str" /\ ~(message.s = "" /\ message.rows = <<>>)

\* RowRuleResult(description, passed, failing_indices, message)
RowRuleResult(description, passed, failing_indices, message) ==
    [description |-> description, passed |-> passed,
     failing_indices |-> failing_indices, message |-> message]

\* list(range(len(df)))
range_len(df) == [i \in 1..Len(df.rows) |-> i - 1]

\* The comparison operators of the expressions.
CompareOps == {">=", ">", "<=", "<", "==", "!="}

\* The number literals of the expressions, in hundredths.
IsLiteral(w) == w \in {"0", "2", "100"}
literal(w) == CASE w = "0" -> 0 [] w = "2" -> 200 [] w = "100" -> 10000

\* One comparison of numbers x and y; with NaN on a side only != is True.
compare(x, op, y) ==
    IF isnull(x) \/ isnull(y) THEN op = "!="
    ELSE CASE op = ">=" -> x.n >= y.n
           [] op = ">" -> x.n > y.n
           [] op = "<=" -> x.n <= y.n
           [] op = "<" -> x.n < y.n
           [] op = "==" -> x.n = y.n
           [] op = "!=" -> x.n # y.n

\* bool(x) of one cell under astype(bool): NaN counts as True, None as False.
cell_bool(cell, dtype) ==
    IF cell.t = "null" THEN dtype # "object"
    ELSE IF cell.t = "num" THEN cell.n # 0
    ELSE cell.s # <<>>

\* df.eval(expression) followed by astype(bool): the exception raised, or
\* the mask, one truth value for each row ("series") or one for all.
eval(df, expression) ==
    LET ok(kind, mask) == [raised |-> "none", text |-> "", kind |-> kind, mask |-> mask]
        raise(exc, text) == [raised |-> exc, text |-> text, kind |-> "", mask |-> <<>>]
        known(w) == w \in ColSet(df) \/ IsLiteral(w)
        undefined(w) ==
            raise("UndefinedVariableError", "name '" \o w \o "' is not defined")
        text_column(w) ==
            /\ w \in ColSet(df)
            /\ \E i \in 1..Len(df.rows) : df.rows[i].cells[w].t = "str"
        value(w, i) == IF w \in ColSet(df) THEN df.rows[i].cells[w] ELSE Num(literal(w))
    IN IF Len(expression) = 3 /\ expression[2] \in CompareOps
       THEN LET x == expression[1]
                y == expression[3]
            IN IF ~known(x) THEN undefined(x)
               ELSE IF ~known(y) THEN undefined(y)
               ELSE IF text_column(x) \/ text_column(y)
               THEN raise("TypeError", "'" \o expression[2]
                              \o "' not supported between instances of 'str' and 'int'")
               ELSE IF x \in ColSet(df) \/ y \in ColSet(df)
               THEN ok("series", [i \in 1..Len(df.rows) |->
                                    compare(value(x, i), expression[2], value(y, i))])
               ELSE ok("scalar", <<compare(Num(literal(x)), expression[2], Num(literal(y)))>>)
       ELSE IF Len(expression) = 1
       THEN LET x == expression[1]
            IN IF x \in ColSet(df)
               THEN ok("series", [i \in 1..Len(df.rows) |->
                                    cell_bool(df.rows[i].cells[x], df.dtype[x])])
               ELSE IF IsLiteral(x) THEN ok("scalar", <<literal(x) # 0>>)
               ELSE undefined(x)
       ELSE raise("SyntaxError", "invalid syntax")

\* list(index[mask]): the labels at the positions where values is True.
RECURSIVE labels_where(_, _)
labels_where(index, values) ==
    IF index = <<>> THEN <<>>
    ELSE (IF Head(values) THEN <<Head(index)>> ELSE <<>>)
            \o labels_where(Tail(index), Tail(values))

\* df.index
index_of(df) == [i \in 1..Len(df.rows) |-> df.rows[i].idx]

\* ~mask
invert(values) == [i \in 1..Len(values) |-> ~values[i]]

\* df.index[mask] in place of df.index[~mask]: the rows that satisfy the rule.
failing_rows_satisfied(df, mask) == labels_where(index_of(df), mask)

\* list(df.index[~mask]): the labels of the rows whose mask entry is False.
failing_rows(df, mask) == labels_where(index_of(df), invert(mask))

\* The except branch with the exception re-raised: expect_df aborts.
evaluation_failed_raise(df, rule, ev) ==
    [raised |-> ev.raised, result |-> RowRuleResult(rule.description, FALSE, <<>>, None)]

\* except Exception as exc: the rule fails for every row.
evaluation_failed(df, rule, ev) ==
    [raised |-> "none",
     result |-> RowRuleResult(rule.description, FALSE, range_len(df),
                              Text("failed to evaluate expression: " \o ev.text))]

\* mask = evaluated.astype(bool), or pd.Series(bool(evaluated), index=df.index)
mask_of(df, ev) ==
    IF ev.kind = "series" THEN ev.mask ELSE [i \in 1..Len(df.rows) |-> ev.mask[1]]

\* passed = not failing, with the message that lists the failing rows.
row_rule_result(rule, failing) ==
    [raised |-> "none",
     result |-> RowRuleResult(
         rule.description, failing = <<>>, failing,
         IF failing # <<>>
         THEN TextRows("rows failing rule '" \o join(rule.expression) \o "':", failing)
         ELSE None)]

\* _validate_row_rule after df.eval(rule.expression) gave ev.
evaluated(df, rule, ev) ==
    IF ev.raised # "none" THEN evaluation_failed(df, rule, ev)
    ELSE row_rule_result(rule, failing_rows(df, mask_of(df, ev)))

\* _validate_row_rule
_validate_row_rule(df, rule) == evaluated(df, rule, eval(df, rule.expression))

-----------------------------------------------------------------------------
(* check.py: _run_validator *)

\* The values a validator function returns.
Bool(b) == [t |-> "bool", b |-> b]
Series(index, values) == [t |-> "Series", index |-> index, values |-> values]
Pair(verdict, message) == [t |-> "tuple", verdict |-> verdict, message |-> message]
Result(result) == [t |-> "RowRuleResult", result |-> result]
IntValue(n) == [t |-> "int", n |-> n]
Raise(exc) == [t |-> "raise", exc |-> exc]

\* df[name] <op> number, as a function of the table: KeyError when the
\* table has no such column.
column_compare(df, name, op, n) ==
    IF name \notin ColSet(df) THEN Raise("KeyError")
    ELSE Series([i \in 1..Len(df.rows) |-> df.rows[i].idx],
                [i \in 1..Len(df.rows) |-> compare(df.rows[i].cells[name], op, Num(n))])

\* bool((df[name] <op> number).all())
column_all(df, name, op, n) ==
    IF name \notin ColSet(df) THEN Raise("KeyError")
    ELSE Bool(\A i \in 1..Len(df.rows) : compare(df.rows[i].cells[name], op, Num(n)))

\* The result a validator builds itself.
Prebuilt == RowRuleResult("checked elsewhere", FALSE, <<0>>, Text("see audit log"))

\* The validator functions of the callers, by name: func(df).
call(func, df) ==
    CASE func = "non_negative" -> column_compare(df, "amount", ">=", 0)
      [] func = "min_threshold" ->
            LET mask == column_compare(df, "amount", ">=", 200)
            IN IF mask.t = "raise" THEN mask
               ELSE Pair(mask, Text("scores must be at least 2"))
      [] func = "silent_threshold" ->
            LET mask == column_compare(df, "amount", ">=", 200)
            IN IF mask.t = "raise" THEN mask ELSE Pair(mask, Text(""))
      [] func = "all_non_negative" -> column_all(df, "amount", ">=", 0)
      [] func = "all_non_negative_message" ->
            LET verdict == column_all(df, "amount", ">=", 0)
            IN IF verdict.t = "raise" THEN verdict
               ELSE Pair(verdict, Text("negative amounts"))
      [] func = "prebuilt" -> Result(Prebuilt)
      [] func = "row_count" -> IntValue(Len(df.rows))
      [] func = "tagged" -> Pair(IntValue(Len(df.rows)), Text("row count"))
      [] func = "broken" -> column_compare(df, "missing", ">=", 0)

\* The last statement replaced by a failing result: nothing is raised.
bad_return_fails(df, description) ==
    [raised |-> "none",
     result |-> RowRuleResult(description, FALSE, range_len(df),
                              Text("validator '" \o description \o "' failed"))]

\* raise TypeError("custom validators must return a bool, pandas Series, or
\* RowRuleResult")
bad_return(df, description) ==
    [raised |-> "TypeError", result |-> RowRuleResult(description, FALSE, <<>>, None)]

\* "failing = []" for every boolean verdict.
bool_failing_none(df, passed) == <<>>

\* "failing = list(range(len(df)))" whatever the verdict.
bool_failing_always(df, passed) == range_len(df)

\* failing = [] if passed else list(range(len(df)))
bool_failing(df, passed) == IF passed THEN <<>> ELSE range_len(df)

\* detail = message or default
detail(message, default) == IF truthy(message) THEN message ELSE default

\* The result for a Series verdict with the given failing labels.
series_result(description, failing, message) ==
    [raised |-> "none",
     result |-> RowRuleResult(
         description, failing = <<>>, failing,
         detail(message,
                IF failing # <<>>
                THEN TextRows("rows failing custom validator '" \o description \o "':",
                              failing)
                ELSE None))]

\* The result for a bool verdict.
bool_result(df, description, passed, message) ==
    [raised |-> "none",
     result |-> RowRuleResult(
         description, passed, bool_failing(df, passed),
         detail(message,
                IF passed THEN None
                ELSE Text("validator '" \o description \o "' failed")))]

\* _run_validator from "if isinstance(verdict, pd.Series)" on.
normalise(df, description, verdict, message) ==
    IF verdict.t = "Series"
    THEN series_result(description, labels_where(verdict.index, invert(verdict.values)),
                       message)
    ELSE IF verdict.t = "bool" THEN bool_result(df, description, verdict.b, message)
    ELSE bad_return(df, description)

\* _run_validator after outcome = func(df).
returned(df, description, outcome) ==
    IF outcome.t = "raise"
    THEN [raised |-> outcome.exc, result |-> RowRuleResult(description, FALSE, <<>>, None)]
    ELSE IF outcome.t = "RowRuleResult" THEN [raised |-> "none", result |-> outcome.result]
    ELSE IF outcome.t = "tuple"
    THEN normalise(df, description, outcome.verdict, outcome.message)
    ELSE normalise(df, description, outcome, None)

\* _run_validator: the result, or the exception raised by the validator
\* function or for the value it returned.
_run_validator(df, validator) ==
    IF validator.form = "RowRuleResult"
    THEN [raised |-> "none", result |-> validator.result]
    ELSE returned(df,
                  IF validator.form = "tuple" THEN validator.description
                  ELSE validator.func,
                  call(validator.func, df))

-----------------------------------------------------------------------------
(* check.py: expect_df *)

\* The outcome of a loop whose first step gave first and whose further
\* steps gave others: the first exception, or all results in order.
then_results(first, others) ==
    IF first.raised # "none" THEN [raised |-> first.raised, results |-> <<>>]
    ELSE IF others.raised # "none" THEN others
    ELSE [raised |-> "none", results |-> <<first.result>> \o others.results]

\* for validator in validators: custom_results.append(_run_validator(df, validator))
RECURSIVE run_validators(_, _)
run_validators(df, validators) ==
    IF validators = <<>> THEN [raised |-> "none", results |-> <<>>]
    ELSE then_results(_run_validator(df, Head(validators)),
                      run_validators(df, Tail(validators)))

\* for expectation in column_expectations: column_results.append(...)
RECURSIVE validate_columns(_, _)
validate_columns(df, column_expectations) ==
    IF column_expectations = <<>> THEN [raised |-> "none", results |-> <<>>]
    ELSE then_results(_validate_column(df, Head(column_expectations)),
                      validate_columns(df, Tail(column_expectations)))

\* for rule in parsed_row_rules: row_results.append(_validate_row_rule(df, rule))
RECURSIVE validate_row_rules(_, _)
validate_row_rules(df, rules) ==
    IF rules = <<>> THEN [raised |-> "none", results |-> <<>>]
    ELSE then_results(_validate_row_rule(df, Head(rules)),
                      validate_row_rules(df, Tail(rules)))

\* all(...) over the column and row results only.
all_passed_rules_only(column_results, row_results, custom_results) ==
    /\ \A i \in 1..Len(column_results) : column_results[i].passed
    /\ \A i \in 1..Len(row_results) : row_results[i].passed

\* all(result.passed for result in column_results + row_results + custom_results)
all_passed(column_results, row_results, custom_results) ==
    /\ \A i \in 1..Len(column_results) : column_results[i].passed
    /\ \A i \in 1..Len(row_results) : row_results[i].passed
    /\ \A i \in 1..Len(custom_results) : custom_results[i].passed

\* ExpectationReport(passed, column_results, row_results, custom_results)
ExpectationReport(passed, column_results, row_results, custom_results) ==
    [kind |-> "report", exc |-> "none", passed |-> passed,
     column_results |-> column_results, row_results |-> row_results,
     custom_results |-> custom_results]

\* expect_df ended by an exception: nothing is returned.
Raised(exc) ==
    [kind |-> "raised", exc |-> exc, passed |-> FALSE,
     column_results |-> <<>>, row_results |-> <<>>, custom_results |-> <<>>]

\* The report of the three lists of results, or the first exception in
\* the order the loops run: validators, columns, row rules.
report_of(custom, columns, rows) ==
    IF custom.raised # "none" THEN Raised(custom.raised)
    ELSE IF columns.raised # "none" THEN Raised(columns.raised)
    ELSE IF rows.raised # "none" THEN Raised(rows.raised)
    ELSE ExpectationReport(all_passed(columns.results, rows.results, custom.results),
                           columns.results, rows.results, custom.results)

\* expect_df after the texts are parsed.
check_all(df, parsed, extra, validators) ==
    IF parsed.raised # "none" THEN Raised(parsed.raised)
    ELSE IF extra.raised # "none" THEN Raised(extra.raised)
    ELSE report_of(run_validators(df, validators),
                   validate_columns(df, parsed.column_expectations),
                   validate_row_rules(df, parsed.row_rules \o extra.rules))

\* expect_df(df, expectations, row_rules=..., validators=...)
expect_df(df, expectations, row_rules, validators) ==
    check_all(df, _parse_expectations(expectations), _parse_row_rules(row_rules),
              validators)

-----------------------------------------------------------------------------
(* cli.py: diff *)

\* A path given on the command line: whether a file is there, and its CSV
\* text as the header and the lines of fields (no header: zero bytes).
File(name, exists, header, lines) ==
    [name |-> name, exists |-> exists, header |-> header, lines |-> lines]

\* The fields of column c in the lines of a file.
fields(file, c) == {file.lines[i][c] : i \in 1..Len(file.lines)}

\* pd.read_csv reads a column as numbers when every field that is not empty
\* is a numeric text.
numeric_column(file, c) ==
    /\ file.lines # <<>>
    /\ \A f \in fields(file, c) : f = <<>> \/ IsNumberText(f)

\* The cell read from one field: empty is NaN; in a numeric column the
\* number (in hundredths), else the text as it stands.
csv_cell(field, numeric) ==
    IF field = <<>> THEN NULL
    ELSE IF numeric
         THEN Num(100 * parse_float(field).whole + (parse_float(field).frac \div pow10(7)))
    ELSE Str(field)

\* The column type pd.read_csv infers.
csv_dtype(file, c) ==
    IF ~numeric_column(file, c) THEN "object"
    ELSE IF \E f \in fields(file, c) : f = <<>> \/ point(f) # 0 THEN "float64"
    ELSE "int64"

\* pd.read_csv(file): the table, or EmptyDataError for a file of zero bytes.
read_csv(file) ==
    IF file.header = <<>>
    THEN [raised |-> "EmptyDataError", frame |-> NoFrame]
    ELSE [raised |-> "none",
          frame |-> MkFrame(file.header,
                            [c \in Range(file.header) |-> csv_dtype(file, c)],
                            [i \in 1..Len(file.lines) |->
                                [c \in Range(file.header) |->
                                    csv_cell(file.lines[i][c], numeric_column(file, c))]])]

\* The process as it ends: exit status, the exception that ended it (if
\* any), the lines echoed to stdout and stderr, and the report written.
Exit(exit_code, exception, stdout, stderr, written) ==
    [kind |-> "exited", exit_code |-> exit_code, exception |-> exception,
     stdout |-> stdout, stderr |-> stderr, written |-> written]

\* raise typer.Exit(code=1) after an error message
exit_error(message) == Exit(1, "none", <<>>, <<message>>, NoText)

\* An exception nothing catches ends the process with status 1.
uncaught(exception, stdout) == Exit(1, exception, stdout, <<>>, NoText)

\* The four lines echoed after the comparison.
echo_counts(delta) ==
    <<"Comparison complete.",
      "Rows in A only: " \o ToString(len(delta.unmatched_a)),
      "Rows in B only: " \o ToString(len(delta.unmatched_b)),
      "Mismatches:     " \o ToString(len(delta.mismatches))>>

\* if out: delta.to_html(str(out)); open(path, "w") raises FileNotFoundError
\* when the directory of the path does not exist.
save_report(delta, out) ==
    IF out.path = "" THEN Exit(0, "none", echo_counts(delta), <<>>, NoText)
    ELSE IF ~out.writable THEN uncaught("FileNotFoundError", echo_counts(delta))
    ELSE Exit(0, "none", echo_counts(delta) \o <<"Report saved to " \o out.path>>, <<>>,
              to_html(delta.unmatched_a, delta.unmatched_b, delta.mismatches,
                      out.path).written)

\* delta = Delta(...) and what follows it
compared(delta, out) ==
    IF delta.raised # "none" THEN uncaught(delta.raised, <<>>)
    ELSE save_report(delta, out)

\* for k in keys: the message of the first key missing from A or from B,
\* "" when every key is in both.
RECURSIVE validate_keys(_, _, _, _, _)
validate_keys(ks, a, b, file_a, file_b) ==
    IF ks = <<>> THEN ""
    ELSE IF Head(ks) \notin ColSet(a)
         THEN "Error: Key '" \o Head(ks) \o "' not found in " \o file_a
    ELSE IF Head(ks) \notin ColSet(b)
         THEN "Error: Key '" \o Head(ks) \o "' not found in " \o file_b
    ELSE validate_keys(Tail(ks), a, b, file_a, file_b)

\* diff from the key validation on
validated(message, a, b, args) ==
    IF message # "" THEN exit_error(message)
    ELSE compared(Delta(a, b, args.keys, args.abs_tol, args.rel_tol), args.out)

\* diff from pd.read_csv on
loaded(read_a, read_b, args) ==
    IF read_a.raised # "none" THEN uncaught(read_a.raised, <<>>)
    ELSE IF read_b.raised # "none" THEN uncaught(read_b.raised, <<>>)
    ELSE validated(validate_keys(args.keys, read_a.frame, read_b.frame,
                                 args.file_a.name, args.file_b.name),
                   read_a.frame, read_b.frame, args)

\* cli.diff
diff(args) ==
    IF ~args.file_a.exists
    THEN exit_error("Error: " \o args.file_a.name \o " not found")
    ELSE IF ~args.file_b.exists
    THEN exit_error("Error: " \o args.file_b.name \o " not found")
    ELSE loaded(read_csv(args.file_a), read_csv(args.file_b), args)

-----------------------------------------------------------------------------
(* quality.py: audit_dataframe *)

\* One row of the issue table.
Issue(column, issue, expected, rows, samples) ==
    [column |-> column, issue |-> issue,
     details |-> [expected |-> expected, rows |-> rows, samples |-> samples]]

\* _normalise_dtype, for the dtype names pandas_dtype knows and the words
\* the string branch looks for; anything else is "unknown".
_normalise_dtype(expected) ==
    IF expected \in {"int64", "int32", "int", "integer"} THEN "integer"
    ELSE IF expected \in {"float64", "float32", "float", "double", "numeric", "number"}
         THEN "float"
    ELSE IF expected \in {"datetime64[ns]", "datetime", "date"} THEN "datetime"
    ELSE IF expected \in {"str", "string", "object"} THEN "string"
    ELSE "unknown"

\* The rows of df whose cell in the column is, or is not, missing.
rows_isna(df, column) ==
    SelectSeq(df.rows, LAMBDA r : isnull(r.cells[column]))
rows_notna(df, column) ==
    SelectSeq(df.rows, LAMBDA r : ~isnull(r.cells[column]))

\* non_null_series[mismatch_mask] of _type_mismatch_mask: the rows whose
\* value fails the conversion of the category.
rows_invalid(df, column, category) ==
    SelectSeq(rows_notna(df, column),
              LAMBDA r : dtype_invalid(r.cells[column], category))

\* list(series.index)
index_list(rows) == [i \in 1..Len(rows) |-> rows[i].idx]

\* invalid.astype(str).head(5).tolist()
sample_values(rows, column, dtype) ==
    [i \in 1..(IF Len(rows) < 5 THEN Len(rows) ELSE 5) |->
        astype_str(rows[i].cells[column], dtype)]

\* The body of the loop over allow_nulls, for one (column, allow).
null_issue(df, column, allow) ==
    IF allow \/ column \notin ColSet(df) \/ rows_isna(df, column) = <<>>
    THEN <<>>
    ELSE <<Issue(column, "null_forbidden", "", index_list(rows_isna(df, column)),
                 <<"null">>)>>

\* The body of the loop over expected_dtypes, for one (column, expected).
dtype_issue(df, column, expected) ==
    IF column \notin ColSet(df) THEN <<>>
    ELSE IF rows_notna(df, column) = <<>> THEN <<>>
    ELSE IF _normalise_dtype(expected) = "unknown" THEN <<>>
    ELSE IF rows_invalid(df, column, _normalise_dtype(expected)) = <<>> THEN <<>>
    ELSE <<Issue(column, "dtype_mismatch", expected,
                 index_list(rows_invalid(df, column, _normalise_dtype(expected))),
                 sample_values(rows_invalid(df, column, _normalise_dtype(expected)),
                               column, df.dtype[column]))>>

RECURSIVE null_issues(_, _)
null_issues(df, allow_nulls) ==
    IF allow_nulls = <<>> THEN <<>>
    ELSE null_issue(df, Head(allow_nulls)[1], Head(allow_nulls)[2])
            \o null_issues(df, Tail(allow_nulls))

RECURSIVE dtype_issues(_, _)
dtype_issues(df, expected_dtypes) ==
    IF expected_dtypes = <<>> THEN <<>>
    ELSE dtype_issue(df, Head(expected_dtypes)[1], Head(expected_dtypes)[2])
            \o dtype_issues(df, Tail(expected_dtypes))

\* The order of the texts sort_values compares (the column and issue names
\* that occur), ascending.
TextOrder == <<"dtype_mismatch", "id", "mostly_int", "null_forbidden">>

rank(text) == CHOOSE i \in 1..Len(TextOrder) : TextOrder[i] = text

issue_before(x, y) ==
    \/ rank(x.column) < rank(y.column)
    \/ x.column = y.column /\ rank(x.issue) < rank(y.issue)

\* result.sort_values(["column", "issue"], ignore_index=True); no two
\* issues share column and issue.
RECURSIVE sort_values(_)
sort_values(found) ==
    IF found = <<>> THEN <<>>
    ELSE LET first == CHOOSE i \in 1..Len(found) :
                          \A j \in 1..Len(found) : j # i => issue_before(found[i], found[j])
         IN <<found[first]>>
                \o sort_values(SelectSeq(found, LAMBDA x : x # found[first]))

\* audit_dataframe(df, allow_nulls=..., expected_dtypes=..., **extra) with
\* no date_formats and no distribution_expectations: the issue table, or the
\* TypeError of a keyword argument the function does not have.
audit_dataframe(df, allow_nulls, expected_dtypes, extra) ==
    IF extra # {}
    THEN [kind |-> "returned", raised |-> "TypeError", rows |-> <<>>]
    ELSE [kind |-> "returned", raised |-> "none",
          rows |-> sort_values(null_issues(df, allow_nulls)
                                  \o dtype_issues(df, expected_dtypes))]

-----------------------------------------------------------------------------
(* Inputs *)

SeqsUpTo(S, n) == UNION {[1..k -> S] : k \in 0..n}

\* Every table of at most MaxRows rows over the given columns and row set.
Frames(cols, dtype, RowSet) ==
    {MkFrame(cols, dtype, rs) : rs \in SeqsUpTo(RowSet, MaxRows)}

\* The rows whose cell in each column c is drawn from dom[c].
RowsOver(dom) ==
    {r \in [DOMAIN dom -> UNION {dom[c] : c \in DOMAIN dom}] :
        \A c \in DOMAIN dom : r[c] \in dom[c]}

EU == <<"E", "U">>
NA == <<"N", "A">>

\* Column type the DataFrame constructor infers for cells drawn from S:
\* object when strings occur, float64 when a number column holds NaN.
InferDtype(c, S) ==
    IF \E x \in S : x.t = "str" THEN "object"
    ELSE IF c = "id" /\ NULL \notin S THEN "int64"
    ELSE "float64"

\* The tables over each of the column lists, cells of column c from dom[c].
Tables(colLists, dom) ==
    UNION {Frames(cols, [c \in Range(cols) |-> InferDtype(c, dom[c])],
                  RowsOver([c \in Range(cols) |-> dom[c]])) :
             cols \in colLists}

Pairs(TA, TB, keyLists, tols) ==
    {[a |-> a, b |-> b, keys |-> k, abs_tol |-> t[1], rel_tol |-> t[2]] :
        a \in TA, b \in TB, k \in keyLists, t \in tols}

\* Numeric tolerance: one key, one numeric column, values at the band's
\* edge (100.25 against 100.00) and NaN, under absolute and relative bands.
NumericInputs ==
    Pairs(Tables({<<"id", "value">>},
                 [id |-> {Num(1)}, value |-> {Num(10000), Num(10025), NULL}]),
          Tables({<<"id", "value">>},
                 [id |-> {Num(1)}, value |-> {Num(10000), NULL}]),
          {<<"id">>},
          {<<0, 0>>, <<25, 0>>, <<24, 0>>, <<0, 10>>, <<0, 25>>})

\* Key partition: keys on one side only, on both, repeated, and null.
KeyInputs ==
    Pairs(Tables({<<"id", "value">>},
                 [id |-> {Num(1), Num(2), NULL}, value |-> {Num(10000)}]),
          Tables({<<"id", "value">>},
                 [id |-> {Num(2), Num(3), NULL}, value |-> {Num(20000)}]),
          {<<"id">>}, {<<0, 0>>})

\* Text keys: whitespace around a key, and different keys.
TextKeyInputs ==
    Pairs(Tables({<<"region", "label">>},
                 [region |-> {Str(EU), Str(<<" ">> \o EU)}, label |-> {Str(<<"x">>)}]),
          Tables({<<"region", "label">>},
                 [region |-> {Str(EU \o <<" ">>), Str(NA)},
                  label |-> {Str(<<"x">>), Str(<<"X">>)}]),
          {<<"region">>}, {<<0, 0>>})

\* Text cells: surrounding and inner whitespace, letter case, None.
TextInputs ==
    Pairs(Tables({<<"id", "label">>},
                 [id |-> {Num(1)},
                  label |-> {Str(<<"x">>), Str(<<" ", "x">>), NULL}]),
          Tables({<<"id", "label">>},
                 [id |-> {Num(1)},
                  label |-> {Str(<<"x", " ">>), Str(<<"X">>), NULL}]),
          {<<"id">>}, {<<0, 0>>})

\* Two compared columns, of which none, one or both differ.
TwoColumnInputs ==
    Pairs(Tables({<<"id", "value", "label">>},
                 [id |-> {Num(1)}, value |-> {Num(10000)}, label |-> {Str(<<"x">>)}]),
          Tables({<<"id", "value", "label">>},
                 [id |-> {Num(1)}, value |-> {Num(10000), Num(10025)},
                  label |-> {Str(<<"x">>), Str(<<"X">>)}]),
          {<<"id">>}, {<<0, 0>>, <<25, 0>>})

\* Schemas: columns on one side only, composite keys, key columns missing.
SchemaInputs ==
    Pairs(Tables({<<"id", "value", "label">>, <<"id", "region", "value">>},
                 [id |-> {Num(1), Num(2)}, region |-> {Str(EU)},
                  value |-> {Num(10025)}, label |-> {Str(<<"x">>)}]),
          Tables({<<"id", "value", "label">>, <<"id", "value">>,
                  <<"id", "region", "label">>, <<"region", "value">>},
                 [id |-> {Num(1)}, region |-> {Str(EU), Str(NA)},
                  value |-> {Num(10000)}, label |-> {Str(<<"x">>)}]),
          {<<"id">>, <<"id", "region">>}, {<<0, 0>>})

\* The tolerance pairs two Deltas of the same tables are built with:
\* (abs_tol in hundredths, rel_tol in ten-thousandths).
Tolerances == {<<0, 0>>, <<24, 0>>, <<25, 0>>, <<0, 25>>, <<0, 5000>>, <<25, 25>>}

\* Tables for Deltas that differ in their tolerances or in the order of
\* their tables: values 0.25 and 100 apart, NaN, and keys of one side only.
ToleranceInputs ==
    Pairs(Tables({<<"id", "value">>},
                 [id |-> {Num(1), Num(2)}, value |-> {Num(10000), Num(10025), NULL}]),
          Tables({<<"id", "value">>},
                 [id |-> {Num(1)}, value |-> {Num(10000), Num(20000)}]),
          {<<"id">>}, Tolerances)

Inputs ==
    NumericInputs \cup KeyInputs \cup TextKeyInputs \cup TextInputs
        \cup TwoColumnInputs \cup SchemaInputs

\* Column type the DataFrame constructor infers for the cells of a column:
\* object when a string occurs or no number does, float64 when a value is
\* missing or not whole, else int64.
InferColumn(cells) ==
    IF \E x \in cells : x.t = "str" THEN "object"
    ELSE IF \A x \in cells : x.t = "null" THEN "object"
    ELSE IF NULL \in cells \/ \E x \in cells : x.n % 100 # 0 THEN "float64"
    ELSE "int64"

\* The frame pd.DataFrame builds from a list of rows over the columns.
DataFrame(cols, rs) ==
    MkFrame(cols,
            [c \in Range(cols) |-> InferColumn({rs[i][c] : i \in 1..Len(rs)})],
            rs)

\* Tables with a column of mixed content: padded strings, numbers, None.
MixedTables ==
    {DataFrame(<<"mixed", "num">>, rs) :
        rs \in SeqsUpTo(RowsOver([mixed |-> {Str(<<" ", "v", " ">>), Num(10), NULL},
                                  num |-> {Num(1)}]),
                        MaxRows)}

\* Tables with padded labels for a Delta whose methods are then called.
PaddedInputs ==
    Pairs(Tables({<<"id", "label">>},
                 [id |-> {Num(1)}, label |-> {Str(<<" ", "x">>)}]),
          Tables({<<"id", "label">>},
                 [id |-> {Num(1)}, label |-> {Str(<<"x", " ">>), Str(<<"X">>)}]),
          {<<"id">>}, {<<0, 0>>})

\* A table of n rows with ids 1..n and one label.
LongFrame(n, label) ==
    MkFrame(<<"id", "label">>, [id |-> "int64", label |-> "object"],
            [i \in 1..n |-> [id |-> Num(i), label |-> Str(<<label>>)]])

\* Partitions of exactly HeadRows rows and of more: all rows in A only, all
\* in B only, all mismatched.
LongInputs ==
    {[a |-> LongFrame(t[1], "x"), b |-> LongFrame(t[2], "X"), keys |-> <<"id">>,
      abs_tol |-> 0, rel_tol |-> 0] :
        t \in {<<n, 0>> : n \in {HeadRows, MaxLongRows}}
                \cup {<<0, n>> : n \in {HeadRows, MaxLongRows}}
                \cup {<<n, n>> : n \in {HeadRows, MaxLongRows}}}

-----------------------------------------------------------------------------
(* Inputs of expect_df *)

\* expect_df not called.
NoExpectations ==
    [kind |-> "none", df |-> NoFrame, expectations |-> <<>>, row_rules |-> <<>>,
     validators |-> <<>>]

NoReport ==
    [kind |-> "none", exc |-> "none", passed |-> FALSE,
     column_results |-> <<>>, row_results |-> <<>>, custom_results |-> <<>>]

\* Every table of at most MaxExpectRows rows over the columns, cells of
\* column c from dom[c].
ExpectTables(cols, dom) ==
    {DataFrame(cols, rs) : rs \in SeqsUpTo(RowsOver(dom), MaxExpectRows)}

\* amount = [10, -5, 0] and its like, with missing values.
AmountTables ==
    ExpectTables(<<"amount">>, [amount |-> {Num(1000), Num(-500), Num(0), NULL}])

\* id = [1, 1, 2] and its like, with missing values.
IdTables == ExpectTables(<<"id">>, [id |-> {Num(100), Num(200), NULL}])

OrderTables ==
    ExpectTables(<<"id", "amount">>,
                 [id |-> {Num(100)}, amount |-> {Num(1000), Num(-500)}])

\* Rule texts.
LineUnique == <<"column", "id", "should", "be", "unique">>
LineUniqueCapitals == <<"Column", "id", "should", "be", "Unique">>
LineUniqueNotNull ==
    <<"expect", "column", "id", "to", "be", "unique", "and", "not", "null">>
LineExists(c) == <<"column", c, "should", "exist">>
LineAmountFloat == <<"column", "amount", ":", "float">>
LineStatusAllowed ==
    <<"column", "status", ":", "allowed", "values", "{", "ok", ",", "pending", "}",
      ";", "allow", "nulls">>
LineIdAllowed == <<"id", ":", "values", "in", "1", "or", "2">>
LineIdDigits == <<"column", "id", "matches", "\\d+">>
LineBadPattern == <<"column", "id", ":", "regex", "[">>
LineNoColumn == <<"amounts", "look", "fine">>
RuleNonNegative == <<"rows", "must", "satisfy", "amount", ">=", "0">>
RuleUnknownColumn == <<"rows", "must", "satisfy", "total", ">=", "0">>
RuleNoExpression == <<"rows", "must", "be", "positive">>
RuleConstant == <<"every", "row", "must", "satisfy", "2", ">", "100">>
RuleTitle == <<"Rows", "must", "satisfy", "amount", ">=", "0">>
RuleShout == <<"Rows", "must", "SATISFY", "amount", ">=", "0">>
RuleMustCapitals == <<"ROWS", "MUST", "amount">>
RuleExpectRows == <<"expect", "rows", "amount", ">=", "0">>

\* Validators as the caller passes them: a result, (description, func),
\* or func alone.
Described(description, func) ==
    [form |-> "tuple", description |-> description, func |-> func, result |-> Prebuilt]
Function(func) ==
    [form |-> "function", description |-> "", func |-> func, result |-> Prebuilt]
Instance(result) ==
    [form |-> "RowRuleResult", description |-> "", func |-> "", result |-> result]

ExpectCalls(tables, expectations, row_rules, validators) ==
    {[kind |-> "call", df |-> df, expectations |-> e, row_rules |-> r,
      validators |-> v] :
        df \in tables, e \in expectations, r \in row_rules, v \in validators}

\* Row rules that evaluate, that raise, and both together.
RowRuleCalls ==
    ExpectCalls(AmountTables,
                {<<>>, <<LineAmountFloat, RuleConstant>>},
                {<<RuleNonNegative>>, <<RuleUnknownColumn>>, <<RuleNoExpression>>,
                 <<RuleUnknownColumn, RuleNonNegative>>},
                {<<>>})

\* Column rules: uniqueness, nullability, no constraint at all, a column
\* the table lacks, allowed values and patterns.
ColumnRuleCalls ==
    ExpectCalls(IdTables,
                {<<>>, <<LineUnique>>, <<LineUniqueCapitals>>, <<LineUniqueNotNull>>,
                 <<LineExists("id")>>, <<LineExists("status")>>,
                 <<LineStatusAllowed, LineIdAllowed>>, <<LineIdDigits, LineNoColumn>>,
                 <<LineBadPattern, LineUnique>>},
                {<<>>}, {<<>>})

\* Custom validators of every return shape, alone and in pairs, next to
\* column and row rules.
ValidatorLists ==
    {<<Described("non-negative score", "non_negative")>>,
     <<Function("non_negative")>>,
     <<Described("min threshold", "min_threshold")>>,
     <<Described("quiet threshold", "silent_threshold")>>,
     <<Function("all_non_negative")>>,
     <<Described("no negative amount", "all_non_negative_message")>>,
     <<Function("prebuilt")>>,
     <<Instance(Prebuilt)>>,
     <<Instance(RowRuleResult("approved", TRUE, <<0>>, None))>>,
     <<Function("row_count")>>,
     <<Described("tagged", "tagged")>>,
     <<Function("broken")>>,
     <<Described("min threshold", "min_threshold"),
       Described("non-negative score", "non_negative")>>,
     <<Described("non-negative score", "non_negative"),
       Described("min threshold", "min_threshold")>>,
     <<Function("all_non_negative"), Function("broken")>>,
     <<Function("row_count"), Instance(Prebuilt)>>}

ValidatorCalls ==
    ExpectCalls(OrderTables,
                {<<>>, <<LineUnique, LineAmountFloat>>},
                {<<>>, <<RuleUnknownColumn, RuleNonNegative>>},
                ValidatorLists)

\* Quantities as texts: whole, above a whole number by 1e-9 and by 2e-8,
\* and no number at all.
TextSeven == <<"7">>
TextNearOne == <<"1", ".", "0", "0", "0", "0", "0", "0", "0", "0", "1">>
TextOffOne == <<"1", ".", "0", "0", "0", "0", "0", "0", "0", "2">>
TextWord == <<"x">>

QtyTextTables ==
    ExpectTables(<<"qty">>,
                 [qty |-> {Str(TextSeven), Str(TextNearOne), Str(TextOffOne),
                           Str(TextWord), NULL}])

\* Quantities as numbers: 3, 1.5 and missing.
QtyTables == ExpectTables(<<"qty">>, [qty |-> {Num(300), Num(150), NULL}])

LineQtyInteger == <<"column", "qty", ":", "integer">>
LineQtyFloat == <<"column", "qty", ":", "float">>

\* Type expectations on numbers and on texts that stand for numbers.
TypeCalls ==
    ExpectCalls(QtyTextTables \cup QtyTables,
                {<<LineQtyInteger>>, <<LineQtyFloat>>}, {<<>>}, {<<>>})

\* Nullability forbidden, allowed and left open, next to a type, a set of
\* allowed values and a pattern.
LineQtyIntegerNotNull == <<"column", "qty", ":", "not", "null", ",", "integer">>
LineQtyIntegerNulls == <<"column", "qty", ":", "allow", "nulls", ",", "integer">>
LineIdAllowedNotNull ==
    <<"column", "id", ":", "not", "null", ";", "values", "in", "1", "or", "2">>
LineIdAllowedNulls ==
    <<"column", "id", ":", "allow", "nulls", ";", "values", "in", "1", "or", "2">>
LineIdDigitsNotNull == <<"column", "id", ":", "not", "null", ",", "matches", "\\d+">>
LineIdDigitsNulls == <<"column", "id", ":", "allow", "nulls", ",", "matches", "\\d+">>

NullCalls ==
    ExpectCalls(QtyTextTables \cup QtyTables,
                {<<LineQtyIntegerNotNull>>, <<LineQtyIntegerNulls>>}, {<<>>}, {<<>>})
    \cup ExpectCalls(IdTables,
                     {<<LineIdAllowedNotNull, LineIdDigits>>,
                      <<LineIdAllowedNulls, LineIdDigitsNotNull>>,
                      <<LineIdDigitsNulls, LineIdAllowed>>},
                     {<<>>}, {<<>>})

\* Row rules among the expectation lines, in several letter cases.
ParseCalls ==
    ExpectCalls(AmountTables,
                {<<RuleTitle>>, <<RuleShout>>, <<RuleMustCapitals>>,
                 <<RuleExpectRows, LineAmountFloat>>},
                {<<>>}, {<<>>})

ExpectInputs ==
    RowRuleCalls \cup ColumnRuleCalls \cup ValidatorCalls \cup TypeCalls \cup ParseCalls
        \cup NullCalls

-----------------------------------------------------------------------------
(* Inputs of the diff command *)

\* The files of at most MaxRows lines under a header, fields of column c
\* from dom[c].
CsvFiles(name, header, dom) ==
    {File(name, TRUE, header, ls) : ls \in SeqsUpTo(RowsOver(dom), MaxRows)}

\* No file at the path, and a file of zero bytes.
Missing(name) == File(name, FALSE, <<>>, <<>>)
ZeroBytes(name) == File(name, TRUE, <<>>, <<>>)

FilesA ==
    {Missing("a.csv"), ZeroBytes("a.csv")}
        \cup CsvFiles("a.csv", <<"id", "value">>,
                      [id |-> {<<"1">>, <<"2">>}, value |-> {<<"2", "0">>}])

\* The second file: ids that are numbers or text, values that are numbers
\* or the text n/a, and files without the id column.
FilesB ==
    {Missing("b.csv"), ZeroBytes("b.csv")}
        \cup CsvFiles("b.csv", <<"id", "value">>,
                      [id |-> {<<"1">>, <<"x">>},
                       value |-> {<<"1", "0">>, <<"n", "/", "a">>}])
        \cup CsvFiles("b.csv", <<"value">>, [value |-> {<<"1", "0">>, <<"2", "0">>}])

\* --out: not given, a path that can be written, a path in a directory that
\* does not exist.
Outs ==
    {[path |-> "", writable |-> TRUE],
     [path |-> "report.html", writable |-> TRUE],
     [path |-> "nowhere/report.html", writable |-> FALSE]}

DiffArgs ==
    {[kind |-> "diff", file_a |-> fa, file_b |-> fb, keys |-> k, out |-> o,
      abs_tol |-> 0, rel_tol |-> 0] :
        fa \in FilesA, fb \in FilesB, k \in {<<"id">>, <<"id", "value">>}, o \in Outs}

-----------------------------------------------------------------------------
(* Inputs of audit_dataframe *)

\* mostly_int = [1, 2, 3, "oops", 4.5]
MostlyInt ==
    DataFrame(<<"id", "mostly_int">>,
              <<[id |-> Num(100), mostly_int |-> Num(100)],
                [id |-> Num(200), mostly_int |-> Num(200)],
                [id |-> Num(300), mostly_int |-> Num(300)],
                [id |-> Num(400), mostly_int |-> Str(<<"o", "o", "p", "s">>)],
                [id |-> Num(500), mostly_int |-> Num(450)]>>)

\* The shorter tables of the same content, with missing values.
AuditTables ==
    {MostlyInt}
        \cup ExpectTables(<<"id", "mostly_int">>,
                          [id |-> {Num(100)},
                           mostly_int |-> {Num(100), Num(450),
                                           Str(<<"o", "o", "p", "s">>), NULL}])

\* Calls without any expectation, with infer_dtypes=False, and with
\* expectations on nulls and types.
AuditCalls ==
    {[kind |-> "call", df |-> df, allow_nulls |-> an, expected_dtypes |-> ed,
      extra |-> x] :
        df \in AuditTables,
        an \in {<<>>, <<<<"mostly_int", FALSE>>, <<"id", FALSE>>>>,
                <<<<"id", TRUE>>, <<"status", FALSE>>>>},
        ed \in {<<>>, <<<<"mostly_int", "int64">>>>, <<<<"mostly_int", "float64">>>>,
                <<<<"mostly_int", "mystery">>, <<"id", "str">>>>},
        x \in {{}, {"infer_dtypes"}}}

-----------------------------------------------------------------------------
(* State *)

VARIABLES
    in_a, in_b,      \* the caller's tables df_a and df_b
    keys,            \* self.keys
    abs_tol, rel_tol,\* self.abs_tol, self.rel_tol
    pc,              \* "new", "built", or the exception __init__ raised
    df_a, df_b,      \* self.df_a, self.df_b
    unmatched_a, unmatched_b, mismatches,
    both,            \* the local frame both of _build_diff_frames
    ret,             \* the outcome of the last call of changed
    html,            \* the outcome of the last call of to_html
    tw,              \* the outcome of the last call of trim_whitespace(T)
    e_in,            \* the arguments expect_df is called with
    e_out,           \* the outcome of expect_df
    argv,            \* the command line of diff and the files it names
    cli_result,      \* the outcome of the diff command
    audit_in,        \* the arguments audit_dataframe is called with
    issues           \* the outcome of audit_dataframe

vars == <<in_a, in_b, keys, abs_tol, rel_tol, pc, df_a, df_b,
          unmatched_a, unmatched_b, mismatches, both, ret,
          html, tw, e_in, e_out,
                   argv, cli_result, audit_in, issues>>

NoCall == [kind |-> "none", column |-> "", frame |-> NoFrame]

\* to_html not called yet.
NoHtml == [kind |-> "none", path |-> "", ret |-> NoText, written |-> NoText]

\* trim_whitespace not called: arg is the table T the caller holds.
NoTrim == [kind |-> "none", arg |-> NoFrame, ret |-> NoFrame]

\* The diff command not run.
NoArgs ==
    [kind |-> "none", file_a |-> Missing(""), file_b |-> Missing(""), keys |-> <<>>,
     out |-> [path |-> "", writable |-> TRUE], abs_tol |-> 0, rel_tol |-> 0]

NoResult ==
    [kind |-> "none", exit_code |-> 0, exception |-> "none", stdout |-> <<>>,
     stderr |-> <<>>, written |-> NoText]

\* audit_dataframe not called.
NoAudit ==
    [kind |-> "none", df |-> NoFrame, allow_nulls |-> <<>>, expected_dtypes |-> <<>>,
     extra |-> {}]

NoIssues == [kind |-> "none", raised |-> "none", rows |-> <<>>]

Init ==
    \E inp \in Inputs :
        /\ in_a = inp.a
        /\ in_b = inp.b
        /\ keys = inp.keys
        /\ abs_tol = inp.abs_tol
        /\ rel_tol = inp.rel_tol
        /\ pc = "new"
        /\ df_a = NoFrame
        /\ df_b = NoFrame
        /\ unmatched_a = NoFrame
        /\ unmatched_b = NoFrame
        /\ mismatches = NoFrame
        /\ both = NoFrame
        /\ ret = NoCall
        /\ html = NoHtml
        /\ tw = NoTrim
        /\ e_in = NoExpectations
        /\ e_out = NoReport
        /\ argv = NoArgs
        /\ cli_result = NoResult
        /\ audit_in = NoAudit
        /\ issues = NoIssues

\* Delta(df_a, df_b, keys, abs_tol=..., rel_tol=...)
Construct ==
    /\ pc = "new"
    /\ LET d == Delta(in_a, in_b, keys, abs_tol, rel_tol)
       IN /\ df_a' = d.df_a
          /\ df_b' = d.df_b
          /\ unmatched_a' = d.unmatched_a
          /\ unmatched_b' = d.unmatched_b
          /\ mismatches' = d.mismatches
          /\ both' = d.both
          /\ pc' = IF d.raised = "none" THEN "built" ELSE d.raised
    /\ UNCHANGED <<in_a, in_b, keys, abs_tol, rel_tol, ret, html, tw, e_in, e_out,
                   argv, cli_result, audit_in, issues>>

\* delta.changed(column)
Changed(column) ==
    /\ pc = "built"
    /\ ret' = IF changed_raises(mismatches, keys, column)
              THEN [kind |-> "KeyError", column |-> column, frame |-> NoFrame]
              ELSE [kind |-> "frame", column |-> column,
                    frame |-> changed_result(mismatches, keys, column)]
    /\ UNCHANGED <<in_a, in_b, keys, abs_tol, rel_tol, pc, df_a, df_b,
                   unmatched_a, unmatched_b, mismatches, both,
                   html, tw, e_in, e_out,
                   argv, cli_result, audit_in, issues>>

\* The column names changed is called with: compared, key, of one side
\* only, and of neither table.
ColumnArgs == BaseNames

Next ==
    \/ Construct
    \/ \E column \in ColumnArgs : Changed(column)

Spec == Init /\ [][Next]_vars

\* Tables and tolerances of a Delta that is compared with the Deltas of the
\* same tables under other tolerances and in the other order.
InitTolerance ==
    \E inp \in ToleranceInputs :
        /\ in_a = inp.a
        /\ in_b = inp.b
        /\ keys = inp.keys
        /\ abs_tol = inp.abs_tol
        /\ rel_tol = inp.rel_tol
        /\ pc = "new"
        /\ df_a = NoFrame
        /\ df_b = NoFrame
        /\ unmatched_a = NoFrame
        /\ unmatched_b = NoFrame
        /\ mismatches = NoFrame
        /\ both = NoFrame
        /\ ret = NoCall
        /\ html = NoHtml
        /\ tw = NoTrim
        /\ e_in = NoExpectations
        /\ e_out = NoReport
        /\ argv = NoArgs
        /\ cli_result = NoResult
        /\ audit_in = NoAudit
        /\ issues = NoIssues

NextTolerance == Construct

SpecTolerance == InitTolerance /\ [][NextTolerance]_vars

\* delta.to_html(path)
ToHtml(path) ==
    /\ pc = "built"
    /\ html' = to_html(unmatched_a, unmatched_b, mismatches, path)
    /\ UNCHANGED <<in_a, in_b, keys, abs_tol, rel_tol, pc, df_a, df_b,
                   unmatched_a, unmatched_b, mismatches, both,
                   ret, tw, e_in, e_out,
                   argv, cli_result, audit_in, issues>>

\* to_html() and to_html("report.html")
PathArgs == {"", "report.html"}

\* trim_whitespace(T) on the caller's table T
TrimWhitespace ==
    /\ LET done == trim_whitespace_call(tw.arg)
       IN tw' = [kind |-> "returned", arg |-> done.arg, ret |-> done.ret]
    /\ UNCHANGED <<in_a, in_b, keys, abs_tol, rel_tol, pc, df_a, df_b,
                   unmatched_a, unmatched_b, mismatches, both,
                   ret, html, e_in, e_out,
                   argv, cli_result, audit_in, issues>>

\* A Delta over padded or long tables and a table T of mixed content, before
\* any call.
InitCalls ==
    \E inp \in PaddedInputs \cup LongInputs, T \in MixedTables :
        /\ in_a = inp.a
        /\ in_b = inp.b
        /\ keys = inp.keys
        /\ abs_tol = inp.abs_tol
        /\ rel_tol = inp.rel_tol
        /\ pc = "new"
        /\ df_a = NoFrame
        /\ df_b = NoFrame
        /\ unmatched_a = NoFrame
        /\ unmatched_b = NoFrame
        /\ mismatches = NoFrame
        /\ both = NoFrame
        /\ ret = NoCall
        /\ html = NoHtml
        /\ tw = [NoTrim EXCEPT !.arg = T]
        /\ e_in = NoExpectations
        /\ e_out = NoReport
        /\ argv = NoArgs
        /\ cli_result = NoResult
        /\ audit_in = NoAudit
        /\ issues = NoIssues

\* Construction, then changed, to_html and trim_whitespace in any order.
NextCalls ==
    \/ Construct
    \/ \E column \in {"label", "value"} : Changed(column)
    \/ \E path \in PathArgs : ToHtml(path)
    \/ TrimWhitespace

SpecCalls == InitCalls /\ [][NextCalls]_vars

\* report = expect_df(df, expectations, row_rules=..., validators=...)
ExpectDf ==
    /\ e_in.kind = "call"
    /\ e_out.kind = "none"
    /\ e_out' = expect_df(e_in.df, e_in.expectations, e_in.row_rules, e_in.validators)
    /\ UNCHANGED <<in_a, in_b, keys, abs_tol, rel_tol, pc, df_a, df_b,
                   unmatched_a, unmatched_b, mismatches, both,
                   ret, html, tw, e_in, argv, cli_result, audit_in, issues>>

\* A call of expect_df about to be made; no Delta.
InitExpect ==
    \E inp \in ExpectInputs :
        /\ in_a = NoFrame
        /\ in_b = NoFrame
        /\ keys = <<>>
        /\ abs_tol = 0
        /\ rel_tol = 0
        /\ pc = "none"
        /\ df_a = NoFrame
        /\ df_b = NoFrame
        /\ unmatched_a = NoFrame
        /\ unmatched_b = NoFrame
        /\ mismatches = NoFrame
        /\ both = NoFrame
        /\ ret = NoCall
        /\ html = NoHtml
        /\ tw = NoTrim
        /\ e_in = inp
        /\ e_out = NoReport
        /\ argv = NoArgs
        /\ cli_result = NoResult
        /\ audit_in = NoAudit
        /\ issues = NoIssues

NextExpect == ExpectDf

SpecExpect == InitExpect /\ [][NextExpect]_vars

\* analysta diff a.csv b.csv --key ... [--out ...]
Diff ==
    /\ argv.kind = "diff"
    /\ cli_result.kind = "none"
    /\ cli_result' = diff(argv)
    /\ UNCHANGED <<in_a, in_b, keys, abs_tol, rel_tol, pc, df_a, df_b,
                   unmatched_a, unmatched_b, mismatches, both,
                   ret, html, tw, e_in, e_out, argv, audit_in, issues>>

\* A command line about to be run; no Delta of the caller's own.
InitCli ==
    \E args \in DiffArgs :
        /\ in_a = NoFrame
        /\ in_b = NoFrame
        /\ keys = <<>>
        /\ abs_tol = 0
        /\ rel_tol = 0
        /\ pc = "none"
        /\ df_a = NoFrame
        /\ df_b = NoFrame
        /\ unmatched_a = NoFrame
        /\ unmatched_b = NoFrame
        /\ mismatches = NoFrame
        /\ both = NoFrame
        /\ ret = NoCall
        /\ html = NoHtml
        /\ tw = NoTrim
        /\ e_in = NoExpectations
        /\ e_out = NoReport
        /\ argv = args
        /\ cli_result = NoResult
        /\ audit_in = NoAudit
        /\ issues = NoIssues

NextCli == Diff

SpecCli == InitCli /\ [][NextCli]_vars
\* issues = audit_dataframe(df, ...)
AuditDataframe ==
    /\ audit_in.kind = "call"
    /\ issues.kind = "none"
    /\ issues' = audit_dataframe(audit_in.df, audit_in.allow_nulls,
                                 audit_in.expected_dtypes, audit_in.extra)
    /\ UNCHANGED <<in_a, in_b, keys, abs_tol, rel_tol, pc, df_a, df_b,
                   unmatched_a, unmatched_b, mismatches, both,
                   ret, html, tw, e_in, e_out, argv, cli_result, audit_in>>

\* A call of audit_dataframe about to be made.
InitAudit ==
    \E call_in \in AuditCalls :
        /\ in_a = NoFrame
        /\ in_b = NoFrame
        /\ keys = <<>>
        /\ abs_tol = 0
        /\ rel_tol = 0
        /\ pc = "none"
        /\ df_a = NoFrame
        /\ df_b = NoFrame
        /\ unmatched_a = NoFrame
        /\ unmatched_b = NoFrame
        /\ mismatches = NoFrame
        /\ both = NoFrame
        /\ ret = NoCall
        /\ html = NoHtml
        /\ tw = NoTrim
        /\ e_in = NoExpectations
        /\ e_out = NoReport
        /\ argv = NoArgs
        /\ cli_result = NoResult
        /\ audit_in = call_in
        /\ issues = NoIssues

NextAudit == AuditDataframe

SpecAudit == InitAudit /\ [][NextAudit]_vars

-----------------------------------------------------------------------------
(* Vocabulary of the properties *)

\* The cells of the rows of a frame, as a set and in row order.
CellsOf(df) == {df.rows[i].cells : i \in 1..Len(df.rows)}
CellSeq(df) == [i \in 1..Len(df.rows) |-> df.rows[i].cells]

\* Non-key columns present in both of the Delta's tables: the compared ones.
ComparedColumns == (ColSet(df_a) \cap ColSet(df_b)) \ Range(keys)

\* |a - b| <= abs_tol + rel_tol * |b| in the fixed-point units of the cells.
WithinBand(a, b) ==
    10000 * Abs(a.n - b.n) <= 10000 * abs_tol + rel_tol * Abs(b.n)

\* The comparator as specified: nulls equal nothing, numbers are equal
\* within the band, anything else is equal when identical.
ComparatorEqual(a, b, numeric) ==
    /\ ~isnull(a)
    /\ ~isnull(b)
    /\ IF numeric THEN WithinBand(a, b) ELSE a = b

\* A row of both differs in some compared column, by the comparator.
RowDiffers(cells) ==
    \E c \in ComparedColumns :
        ~ComparatorEqual(cells[c \o "_a"], cells[c \o "_b"],
                         is_numeric_dtype(df_a.dtype[c]))

-----------------------------------------------------------------------------
(* Properties *)

\* C1: once a Delta is built, the key sets of unmatched_a, unmatched_b and
\* the matched group are the keys only in A, only in B and in both; they are
\* pairwise disjoint and their union is the union of the keys of A and B
\* (A and B being the Delta's tables self.df_a and self.df_b).
C1_KeyPartition ==
    pc = "built" =>
        LET KA == KeysOf(df_a, keys)
            KB == KeysOf(df_b, keys)
            UA == KeysOf(unmatched_a, keys)
            UB == KeysOf(unmatched_b, keys)
            M == KeysOf(both, keys)
        IN /\ UA = KA \ KB
           /\ UB = KB \ KA
           /\ M = KA \cap KB
           /\ UA \cap UB = {}
           /\ UA \cap M = {}
           /\ UB \cap M = {}
           /\ UA \cup UB \cup M = KA \cup KB

\* C1 witness: a Delta with keys in all three groups.
C1_Witness ==
    /\ pc = "built"
    /\ unmatched_a.rows # <<>>
    /\ unmatched_b.rows # <<>>
    /\ both.rows # <<>>

\* C2: on a numeric compared column, a matched row whose values a and b are
\* outside the band |a - b| <= abs_tol + rel_tol * |b| is a mismatch, and a
\* row within the band (bound included) whose other compared columns are
\* equal is not.
C2_ToleranceBand ==
    pc = "built" =>
        \A r \in CellsOf(both) :
            \A c \in ComparedColumns :
                LET a == r[c \o "_a"]
                    b == r[c \o "_b"]
                IN (is_numeric_dtype(df_a.dtype[c]) /\ ~isnull(a) /\ ~isnull(b)) =>
                      /\ ~WithinBand(a, b) => r \in CellsOf(mismatches)
                      /\ (/\ WithinBand(a, b)
                          /\ \A o \in ComparedColumns \ {c} :
                                ComparatorEqual(r[o \o "_a"], r[o \o "_b"],
                                                is_numeric_dtype(df_a.dtype[o])))
                            => r \notin CellsOf(mismatches)

\* C2 witness: 100.25 against 100.00 under rel_tol = 0.0025 sits exactly on
\* the bound and is no mismatch.
C2_Witness ==
    /\ pc = "built"
    /\ abs_tol = 0
    /\ rel_tol = 25
    /\ \E r \in CellsOf(both) : r["value_a"] = Num(10025) /\ r["value_b"] = Num(10000)
    /\ mismatches.rows = <<>>

\* C3: mismatches holds, in order, exactly the rows of the matched group
\* that differ in at least one compared column, with the columns of the
\* matched group and index labels 0, 1, 2, ...
C3_MismatchesExact ==
    pc = "built" =>
        /\ CellSeq(mismatches) = SelectSeq(CellSeq(both), RowDiffers)
        /\ mismatches.cols = both.cols
        /\ \A i \in 1..Len(mismatches.rows) : mismatches.rows[i].idx = i - 1

\* C3 witness: two compared columns, a matched row that is equal in both and
\* comes first, and a later matched row that differs in only one of them.
C3_Witness ==
    /\ pc = "built"
    /\ Cardinality(ComparedColumns) = 2
    /\ Len(both.rows) > Len(mismatches.rows)
    /\ ~RowDiffers(both.rows[1].cells)
    /\ \E r \in CellsOf(mismatches) :
          \E c \in ComparedColumns : r[c \o "_a"] = r[c \o "_b"]


\* C4: changed(column) returns only rows where that column differs between
\* A and B: no returned row has column_a and column_b equal by the comparator.
C4_ChangedOnlyDiffering ==
    (pc = "built" /\ ret.kind = "frame") =>
        \A r \in CellsOf(ret.frame) :
            ~ComparatorEqual(r[ret.column \o "_a"], r[ret.column \o "_b"],
                             is_numeric_dtype(df_a.dtype[ret.column]))

SwapSuffix(c) ==
    IF \E base \in BaseNames : c = base \o "_a"
    THEN (CHOOSE base \in BaseNames : c = base \o "_a") \o "_b"
    ELSE IF \E base \in BaseNames : c = base \o "_b"
    THEN (CHOOSE base \in BaseNames : c = base \o "_b") \o "_a"
    ELSE c

\* The rows of a frame with the values under "_a" and "_b" exchanged.
SwappedCells(df) ==
    [i \in 1..Len(df.rows) |->
        [c \in {SwapSuffix(x) : x \in ColSet(df)} |-> df.rows[i].cells[SwapSuffix(c)]]]

\* s and u hold the same elements the same number of times.
SameBag(s, u) ==
    /\ Len(s) = Len(u)
    /\ \A x \in Range(s) :
          Cardinality({i \in DOMAIN s : s[i] = x}) = Cardinality({i \in DOMAIN u : u[i] = x})

\* C6 as stated: unmatched_a of Delta(A, B) is the very table unmatched_b of
\* Delta(B, A): same rows, same columns, same values.
C6_SwapIdentical ==
    pc = "built" =>
        LET swapped == Delta(in_b, in_a, keys, abs_tol, rel_tol).unmatched_b
        IN /\ CellSeq(unmatched_a) = CellSeq(swapped)
           /\ unmatched_a.cols = swapped.cols

\* C6 amended: unmatched_a of Delta(A, B) and unmatched_b of Delta(B, A)
\* hold the same rows once the "_a" and "_b" values are exchanged: A's
\* values stand under "_a" in the first and under "_b" in the second.
C6_SwapExchanged ==
    pc = "built" =>
        LET swapped == Delta(in_b, in_a, keys, abs_tol, rel_tol).unmatched_b
        IN /\ ColSet(unmatched_a) = {SwapSuffix(c) : c \in ColSet(swapped)}
           /\ SameBag(CellSeq(unmatched_a), SwappedCells(swapped))

\* C6 witness: a row of A alone, with a column that B has too.
C6_Witness ==
    /\ pc = "built"
    /\ unmatched_a.rows # <<>>
    /\ ComparedColumns # {}
    /\ Len(in_b.rows) > 0

\* C7: a matched row with a null in a compared column, on either side or on
\* both, is a mismatch, whatever the column type and the tolerances.
C7_NullNeverEqual ==
    pc = "built" =>
        \A r \in CellsOf(both) :
            (\E c \in ComparedColumns : isnull(r[c \o "_a"]) \/ isnull(r[c \o "_b"]))
                => r \in CellsOf(mismatches)

\* C7 witness: NaN against NaN in a numeric column under a non-zero
\* tolerance, reported as a mismatch.
C7_Witness ==
    /\ pc = "built"
    /\ abs_tol + rel_tol > 0
    /\ "value" \in ComparedColumns
    /\ \E r \in CellsOf(mismatches) : isnull(r["value_a"]) /\ isnull(r["value_b"])

\* A string without its leading and trailing whitespace, by position.
Core(s) ==
    LET I == {i \in 1..Len(s) : ~IsSpace(s[i])}
    IN IF I = {} THEN <<>>
       ELSE SubSeq(s, CHOOSE i \in I : \A j \in I : i <= j,
                      CHOOSE i \in I : \A j \in I : i >= j)

\* A table with every string cell replaced by its core.
Normalised(df) ==
    [df EXCEPT !.rows =
        [i \in 1..Len(df.rows) |->
            [df.rows[i] EXCEPT !.cells =
                [c \in ColSet(df) |->
                    IF df.rows[i].cells[c].t = "str"
                    THEN Str(Core(df.rows[i].cells[c].s))
                    ELSE df.rows[i].cells[c]]]]]

\* C8: the three partitions of Delta(A, B) are those of the Delta of the
\* whitespace-normalised tables; strings that differ otherwise (letter case
\* included) in a compared column of a matched row make it a mismatch, and
\* rows of A and B whose keys differ only in surrounding whitespace match.
C8_TrimmedComparison ==
    pc = "built" =>
        LET d == Delta(Normalised(in_a), Normalised(in_b), keys, abs_tol, rel_tol)
        IN /\ unmatched_a = d.unmatched_a
           /\ unmatched_b = d.unmatched_b
           /\ mismatches = d.mismatches
           /\ \A r \in CellsOf(both) :
                 (\E c \in ComparedColumns :
                     /\ r[c \o "_a"].t = "str"
                     /\ r[c \o "_b"].t = "str"
                     /\ r[c \o "_a"].s # r[c \o "_b"].s)
                 => r \in CellsOf(mismatches)
           /\ KeysOf(both, keys)
                = KeysOf(Normalised(in_a), keys) \cap KeysOf(Normalised(in_b), keys)
           /\ \A i \in 1..Len(in_a.rows) : \A j \in 1..Len(in_b.rows) :
                 LET x == Normalised(in_a).rows[i].cells
                     y == Normalised(in_b).rows[j].cells
                 IN (/\ KeyOf(x, keys) = KeyOf(y, keys)
                     /\ \A c \in ComparedColumns :
                           ComparatorEqual(x[c], y[c], is_numeric_dtype(df_a.dtype[c])))
                    => \E r \in CellsOf(both) \ CellsOf(mismatches) :
                          /\ KeyOf(r, keys) = KeyOf(x, keys)
                          /\ \A c \in ComparedColumns :
                                r[c \o "_a"] = x[c] /\ r[c \o "_b"] = y[c]

\* C8 witness: keys " EU" and "EU " matched, labels "x" and "X" reported as
\* a mismatch.
C8_Witness ==
    /\ pc = "built"
    /\ keys = <<"region">>
    /\ \E i \in 1..Len(in_a.rows) : in_a.rows[i].cells["region"] = Str(<<" ">> \o EU)
    /\ \E j \in 1..Len(in_b.rows) : in_b.rows[j].cells["region"] = Str(EU \o <<" ">>)
    /\ \E r \in CellsOf(mismatches) :
          /\ r["region"] = Str(EU)
          /\ r["label_a"] = Str(<<"x">>)
          /\ r["label_b"] = Str(<<"X">>)

\* The rows of frame u are the rows of table t whose key is not in Other,
\* each with t's cells under Name(c) and null in every column t lacks.
CarriesRowsOf(u, t, Other, Name(_)) ==
    LET K == Range(keys)
        Mine == {KeyOf(t.rows[i].cells, keys) : i \in 1..Len(t.rows)} \ Other
        Expected(i) ==
            [c \in ColSet(u) |->
                IF c \in K THEN t.rows[i].cells[c]
                ELSE IF \E x \in ColSet(t) \ K : Name(x) = c
                THEN t.rows[i].cells[CHOOSE x \in ColSet(t) \ K : Name(x) = c]
                ELSE NULL]
        Sel == SelectSeq([i \in 1..Len(t.rows) |-> i],
                         LAMBDA i : KeyOf(t.rows[i].cells, keys) \in Mine)
    IN /\ {Name(x) : x \in ColSet(t) \ K} \cup K \subseteq ColSet(u)
       /\ SameBag(CellSeq(u), [n \in 1..Len(Sel) |-> Expected(Sel[n])])

\* C9: unmatched_a holds one row per row of A whose key B lacks, with A's
\* values in the key columns and in A's columns ("_a" where B has the column
\* too) and null in every column that comes from B; unmatched_b likewise with
\* the sides exchanged.
C9_UnmatchedCarryOwnSide ==
    pc = "built" =>
        /\ CarriesRowsOf(unmatched_a, df_a, KeysOf(df_b, keys),
                         LAMBDA c : IF c \in ColSet(df_b) THEN c \o "_a" ELSE c)
        /\ CarriesRowsOf(unmatched_b, df_b, KeysOf(df_a, keys),
                         LAMBDA c : IF c \in ColSet(df_a) THEN c \o "_b" ELSE c)

\* C9 witness: rows on each side alone, with a column both sides have.
C9_Witness ==
    /\ pc = "built"
    /\ "value" \in ComparedColumns
    /\ \E r \in CellsOf(unmatched_a) : ~isnull(r["value_a"]) /\ isnull(r["value_b"])
    /\ \E r \in CellsOf(unmatched_b) : isnull(r["value_a"]) /\ ~isnull(r["value_b"])

\* C10: when a key column is absent from A or from B the constructor raises
\* KeyError and leaves no result tables; a Delta is built only when every
\* key column is in both.
C10_MissingKeyRaises ==
    pc # "new" =>
        IF \E k \in Range(keys) : k \notin ColSet(in_a) \/ k \notin ColSet(in_b)
        THEN /\ pc = "KeyError"
             /\ unmatched_a = NoFrame
             /\ unmatched_b = NoFrame
             /\ mismatches = NoFrame
        ELSE pc = "built"

\* C10 witness: a key column that A has and B lacks.
C10_Witness ==
    /\ pc = "KeyError"
    /\ \E k \in Range(keys) : k \in ColSet(in_a) /\ k \notin ColSet(in_b)
    /\ in_a.rows # <<>>
    /\ in_b.rows # <<>>


-----------------------------------------------------------------------------
\* C11: no call changes a table the caller holds: across the construction
\* of the Delta, every call of changed and to_html, and trim_whitespace(T),
\* the caller's A, B and T keep exactly their cells, padded strings included.
C11_CallerTablesUntouched ==
    [][in_a' = in_a /\ in_b' = in_b /\ tw'.arg = tw.arg]_vars

\* A state after all four calls in which the Delta's own table A and the
\* table trim_whitespace returned differ from what the caller still holds.
C11_Witness ==
    /\ pc = "built"
    /\ ret.kind = "frame"
    /\ html.kind = "returned"
    /\ tw.kind = "returned"
    /\ df_a # in_a
    /\ df_b # in_b
    /\ tw.ret # tw.arg
    /\ \E i \in 1..Len(in_a.rows) : in_a.rows[i].cells["label"] = Str(<<" ", "x">>)
    /\ \E i \in 1..Len(tw.arg.rows) :
            tw.arg.rows[i].cells["mixed"] = Str(<<" ", "v", " ">>)

\* C12: trimming a trimmed table changes nothing, and trim_whitespace(T)
\* is T with every string cell reduced to its core and every other cell
\* (number or null, also in a column that holds strings) as it was.
C12_TrimIdempotentStringsOnly ==
    tw.kind = "returned" =>
        /\ trim_whitespace(tw.ret) = tw.ret
        /\ tw.ret.cols = tw.arg.cols
        /\ Len(tw.ret.rows) = Len(tw.arg.rows)
        /\ \A i \in 1..Len(tw.arg.rows) : \A c \in ColSet(tw.arg) :
              LET before == tw.arg.rows[i].cells[c]
                  after == tw.ret.rows[i].cells[c]
              IN IF before.t = "str"
                 THEN after = Str(Core(before.s))
                 ELSE after = before

\* A trimmed table of a column holding a padded string, a number and None.
C12_Witness ==
    /\ tw.kind = "returned"
    /\ Len(tw.arg.rows) = 2
    /\ tw.arg.rows[1].cells["mixed"] = Str(<<" ", "v", " ">>)
    /\ tw.arg.rows[2].cells["mixed"] \in {Num(10), NULL}
    /\ tw.ret.rows[1].cells["mixed"] = Str(<<"v">>)

-----------------------------------------------------------------------------
(* Vocabulary of the properties of expect_df *)

\* The positions 0, 1, ... of the rows of df whose cells satisfy P, ascending.
RECURSIVE PositionsFrom(_, _, _)
PositionsFrom(df, P(_), i) ==
    IF i > Len(df.rows) THEN <<>>
    ELSE (IF P(df.rows[i].cells) THEN <<i - 1>> ELSE <<>>) \o PositionsFrom(df, P, i + 1)

PositionsWhere(df, P(_)) == PositionsFrom(df, P, 1)

AllPositions(df) == PositionsWhere(df, LAMBDA cells : TRUE)

\* expect_df returned a report.
Reported == e_out.kind = "report"

\* The rule texts among the expectations that are row rules, then the
\* row_rules argument: the row rules in the order of their results.
\* The words of a text, as written and in lower case.
Words(text) == {text[i] : i \in 1..Len(text)}
Lowered(text) == {lower(text[i]) : i \in 1..Len(text)}

\* A line that begins, in any letter case, with "rows must", "every row
\* must" or "expect rows".
RowLine(line) ==
    \/ startswith(lowered_words(line), <<"rows", "must">>)
    \/ startswith(lowered_words(line), <<"every", "row", "must">>)
    \/ startswith(lowered_words(line), <<"expect", "rows">>)

RowRuleTexts == SelectSeq(e_in.expectations, RowLine) \o e_in.row_rules

\* The rule texts among the expectations that are column rules.
ColumnRuleTexts ==
    SelectSeq(e_in.expectations, LAMBDA line : ~RowLine(line) /\ line # LineNoColumn)

\* A rule text whose splitting word ("satisfy", or "must" when there is no
\* "satisfy") is written with capitals only.
LosesCase(text) ==
    IF "satisfy" \in Lowered(text) THEN "satisfy" \notin Words(text)
    ELSE "must" \in Lowered(text) /\ "must" \notin Words(text)

\* Validator functions that return a value outside the accepted shapes
\* (a row count; a pair whose verdict is a row count).
BadShape(v) == v.form # "RowRuleResult" /\ v.func \in {"row_count", "tagged"}

\* Validator functions that raise an exception of their own.
Raises(v) == v.form # "RowRuleResult" /\ v.func = "broken"

\* The call holds nothing that makes expect_df raise.
NothingRaises ==
    /\ \A i \in 1..Len(e_in.validators) :
          ~BadShape(e_in.validators[i]) /\ ~Raises(e_in.validators[i])
    /\ \A i \in 1..Len(e_in.expectations) : e_in.expectations[i] # LineBadPattern
    /\ \A i \in 1..Len(RowRuleTexts) : ~LosesCase(RowRuleTexts[i])

-----------------------------------------------------------------------------
\* C13: a report is passed exactly when every column result, every row-rule
\* result and every custom-validator result in it is passed; a report
\* without any result is passed.
C13_ReportPassedIsConjunction ==
    Reported =>
        /\ e_out.passed <=>
              /\ \A i \in 1..Len(e_out.column_results) : e_out.column_results[i].passed
              /\ \A i \in 1..Len(e_out.row_results) : e_out.row_results[i].passed
              /\ \A i \in 1..Len(e_out.custom_results) : e_out.custom_results[i].passed
        /\ (e_out.column_results = <<>> /\ e_out.row_results = <<>>
              /\ e_out.custom_results = <<>>) => e_out.passed

\* A failed report in which the column and row results all pass and only a
\* custom validator fails.
C13_Witness ==
    /\ Reported
    /\ ~e_out.passed
    /\ e_out.column_results # <<>>
    /\ \A i \in 1..Len(e_out.column_results) : e_out.column_results[i].passed
    /\ \A i \in 1..Len(e_out.row_results) : e_out.row_results[i].passed
    /\ \E i \in 1..Len(e_out.custom_results) : ~e_out.custom_results[i].passed

\* C14: a row rule whose expression evaluates lists as failing exactly the
\* positions, in row order, of the rows where the expression is false, and
\* passes iff there is none ("amount >= 0" is false for negative and for
\* missing amounts, "2 > 100" for every row).
C14_RowRuleFailingPositions ==
    Reported =>
        \A i \in 1..Len(e_out.row_results) :
            LET r == e_out.row_results[i]
                expected ==
                    IF RowRuleTexts[i] = RuleNonNegative
                    THEN PositionsWhere(e_in.df,
                            LAMBDA cells : ~(cells["amount"].t = "num"
                                               /\ cells["amount"].n >= 0))
                    ELSE AllPositions(e_in.df)
            IN (\/ RowRuleTexts[i] = RuleNonNegative /\ "amount" \in ColSet(e_in.df)
                \/ RowRuleTexts[i] = RuleConstant)
               => /\ r.failing_indices = expected
                  /\ r.passed <=> (expected = <<>>)

\* amount = [10, -5, 0] under "rows must satisfy amount >= 0": row 1 fails.
C14_Witness ==
    /\ Reported
    /\ CellSeq(e_in.df) = <<[amount |-> Num(1000)], [amount |-> Num(-500)],
                            [amount |-> Num(0)]>>
    /\ e_in.row_rules = <<RuleNonNegative>>
    /\ e_out.row_results[1].failing_indices = <<1>>
    /\ ~e_out.row_results[1].passed

\* C15: a row rule whose expression cannot be evaluated (an unknown column,
\* no expression at all) gets a failed result that lists every row position
\* and carries the error text; expect_df returns a report all the same, with
\* a result for every column rule and every row rule.
C15_RowRuleErrorContained ==
    (e_out.kind # "none" /\ NothingRaises) =>
        /\ Reported
        /\ Len(e_out.row_results) = Len(RowRuleTexts)
        /\ Len(e_out.column_results) = Len(ColumnRuleTexts)
        /\ \A i \in 1..Len(RowRuleTexts) :
              LET r == e_out.row_results[i]
              IN /\ RowRuleTexts[i] = RuleUnknownColumn =>
                      /\ ~r.passed
                      /\ r.failing_indices = AllPositions(e_in.df)
                      /\ r.message = Text("failed to evaluate expression: "
                                            \o "name 'total' is not defined")
                 /\ RowRuleTexts[i] = RuleNoExpression =>
                      /\ ~r.passed
                      /\ r.failing_indices = AllPositions(e_in.df)
                      /\ r.message = Text("failed to evaluate expression: "
                                            \o "invalid syntax")

\* A report for a table of three rows whose first row rule names an unknown
\* column and fails for rows 0, 1, 2, and whose second row rule and column
\* rules were evaluated as usual.
C15_Witness ==
    /\ Reported
    /\ Len(e_in.df.rows) = 3
    /\ e_in.row_rules = <<RuleUnknownColumn, RuleNonNegative>>
    /\ e_out.row_results[1].failing_indices = <<0, 1, 2>>
    /\ e_out.row_results[2].failing_indices = <<1>>
    /\ e_out.column_results # <<>>

\* C16: an error in one rule or in one custom validator stays with that rule
\* or validator: whenever no validator breaks the return contract, expect_df
\* returns a report with a result for every column rule, row rule and
\* validator.
C16_ErrorsIsolated ==
    (/\ e_out.kind # "none"
     /\ \A i \in 1..Len(e_in.validators) : ~BadShape(e_in.validators[i]))
    => /\ Reported
       /\ Len(e_out.column_results) = Len(ColumnRuleTexts)
       /\ Len(e_out.row_results) = Len(RowRuleTexts)
       /\ Len(e_out.custom_results) = Len(e_in.validators)

\* C17: a validator that returns neither a boolean, nor a per-row boolean
\* sequence, nor a pair of one of those with a message, nor a result makes
\* expect_df raise; the caller gets no report.
C17_BadReturnRaises ==
    (/\ e_out.kind # "none"
     /\ \E i \in 1..Len(e_in.validators) : BadShape(e_in.validators[i]))
    => /\ e_out.kind = "raised"
       /\ e_out.exc = "TypeError"
       /\ e_out.column_results = <<>>
       /\ e_out.row_results = <<>>
       /\ e_out.custom_results = <<>>

\* expect_df raised TypeError for a validator returning a row count, with
\* column rules, row rules and a further validator in the same call.
C17_Witness ==
    /\ e_out.kind = "raised"
    /\ e_out.exc = "TypeError"
    /\ e_in.validators = <<Function("row_count"), Instance(Prebuilt)>>
    /\ e_in.expectations # <<>>
    /\ e_in.row_rules # <<>>
    /\ e_in.df.rows # <<>>

\* What the validator function named func returns for the table, as the
\* properties read it: the verdict by rows, the verdict as a whole, and the
\* message supplied with it.
RowVerdict(func, cells) ==
    IF func = "non_negative" THEN cells["amount"].n >= 0 ELSE cells["amount"].n >= 200

WholeVerdict(df) == \A i \in 1..Len(df.rows) : df.rows[i].cells["amount"].n >= 0

Supplied(func) ==
    CASE func = "min_threshold" -> Text("scores must be at least 2")
      [] func = "silent_threshold" -> Text("")
      [] func = "all_non_negative_message" -> Text("negative amounts")

\* The result for validator v is normalised as stated; Kept(func, message)
\* says what has to hold of the message of a (verdict, message) pair.
NormalisedResult(v, r, Kept(_, _)) ==
    IF v.form = "RowRuleResult" THEN r = v.result
    ELSE IF v.func = "prebuilt" THEN r = Prebuilt
    ELSE /\ r.description = IF v.form = "tuple" THEN v.description ELSE v.func
         /\ v.func \in {"non_negative", "min_threshold", "silent_threshold"} =>
              /\ r.failing_indices =
                    PositionsWhere(e_in.df, LAMBDA cells : ~RowVerdict(v.func, cells))
              /\ r.passed <=> (r.failing_indices = <<>>)
         /\ v.func \in {"all_non_negative", "all_non_negative_message"} =>
              /\ r.passed <=> WholeVerdict(e_in.df)
              /\ r.failing_indices =
                    IF WholeVerdict(e_in.df) THEN <<>> ELSE AllPositions(e_in.df)
         /\ v.func \in {"min_threshold", "silent_threshold", "all_non_negative_message"}
              => Kept(v.func, r.message)

\* Every custom result, in the order of the validators, is normalised.
AllNormalised(Kept(_, _)) ==
    Reported =>
        /\ Len(e_out.custom_results) = Len(e_in.validators)
        /\ \A i \in 1..Len(e_in.validators) :
              NormalisedResult(e_in.validators[i], e_out.custom_results[i], Kept)

\* C18 as stated: a boolean gives passed with no failing rows or all of them,
\* a per-row sequence the positions of its false entries, a pair the same
\* with the supplied message kept whatever it is, a pre-built result is
\* taken as it is; results are in the order of the validators.
C18_PairKeepsMessage ==
    AllNormalised(LAMBDA func, message : message = Supplied(func))

\* C18: as above, the supplied message of a pair being kept when it is not
\* empty; an empty message counts as none supplied.
C18_PairKeepsNonEmptyMessage ==
    AllNormalised(LAMBDA func, message :
                      IF Supplied(func) # Text("") THEN message = Supplied(func)
                      ELSE message # Text(""))

\* Two validators on amount = [10, -5]: the results stand in the order given,
\* each with row 1 failing, the pair's message kept.
C18_Witness ==
    /\ Reported
    /\ e_in.validators = <<Described("min threshold", "min_threshold"),
                           Described("non-negative score", "non_negative")>>
    /\ Len(e_out.custom_results) = 2
    /\ e_out.custom_results[1].description = "min threshold"
    /\ e_out.custom_results[1].failing_indices = <<1>>
    /\ e_out.custom_results[1].message = Text("scores must be at least 2")
    /\ e_out.custom_results[2].description = "non-negative score"
    /\ e_out.custom_results[2].failing_indices = <<1>>

\* The rule texts that request uniqueness of id, and those that request
\* nothing else.
RequestsUnique(line) == line \in {LineUnique, LineUniqueCapitals, LineUniqueNotNull}
OnlyUnique(line) == line \in {LineUnique, LineUniqueCapitals}

\* The value of the row occurs in the column more than once (missing values
\* taken as one value).
OccursTwice(df, name, cells) ==
    Cardinality({i \in 1..Len(df.rows) : df.rows[i].cells[name] = cells[name]}) >= 2

\* C19: a rule requesting uniqueness reports duplicates iff some value occurs
\* more than once in the column, listing the positions of every occurrence
\* of every such value; a rule that asks for nothing else fails exactly then.
C19_UniqueListsEveryOccurrence ==
    (Reported /\ "id" \in ColSet(e_in.df)) =>
        \A i \in 1..Len(ColumnRuleTexts) :
            LET r == e_out.column_results[i]
                twice == PositionsWhere(e_in.df,
                                        LAMBDA cells : OccursTwice(e_in.df, "id", cells))
                D == {k \in 1..Len(r.diagnostics) :
                        r.diagnostics[k].text = "expected unique values; duplicate"}
            IN RequestsUnique(ColumnRuleTexts[i]) =>
                  /\ (D # {}) <=> (twice # <<>>)
                  /\ \A k \in D : r.diagnostics[k].rows = twice
                  /\ OnlyUnique(ColumnRuleTexts[i]) => (r.passed <=> (twice = <<>>))

\* "column id should be unique" on id = [1, 1, 2]: duplicate rows [0, 1].
C19_Witness ==
    /\ Reported
    /\ e_in.expectations = <<LineUnique>>
    /\ CellSeq(e_in.df) = <<[id |-> Num(100)], [id |-> Num(100)], [id |-> Num(200)]>>
    /\ ~e_out.passed
    /\ e_out.column_results[1].column = "id"
    /\ e_out.column_results[1].diagnostics[1].rows = <<0, 1>>

\* C20 as stated: a column rule that sets no constraint passes for every
\* table.
C20_NoConstraintPasses ==
    Reported =>
        \A i \in 1..Len(ColumnRuleTexts) :
            ColumnRuleTexts[i] \in {LineExists("id"), LineExists("status")}
                => e_out.column_results[i].passed

\* C20: a column rule that sets no constraint passes, with no diagnostics,
\* for every table that has the column; for a table without the column it
\* fails with the diagnostic "column missing".
C20_NoConstraintPassesIfPresent ==
    Reported =>
        \A i \in 1..Len(ColumnRuleTexts) :
            \A c \in {"id", "status"} :
                ColumnRuleTexts[i] = LineExists(c) =>
                    LET r == e_out.column_results[i]
                    IN /\ r.column = c
                       /\ r.passed <=> (c \in ColSet(e_in.df))
                       /\ c \in ColSet(e_in.df) => r.diagnostics = <<>>
                       /\ c \notin ColSet(e_in.df) =>
                             /\ Len(r.diagnostics) = 1
                             /\ r.diagnostics[1].text = "column missing"

\* A rule without constraints passing on a column with repeated and missing
\* values.
C20_Witness ==
    /\ Reported
    /\ e_in.expectations = <<LineExists("id")>>
    /\ CellSeq(e_in.df) = <<[id |-> Num(100)], [id |-> Num(100)], [id |-> NULL]>>
    /\ e_out.passed
    /\ e_out.column_results[1].diagnostics = <<>>


\* The row labels a column result lists under a diagnostic text.
RowsUnder(result, text) ==
    UNION {Range(result.diagnostics[i].rows) :
             i \in {j \in 1..Len(result.diagnostics) : result.diagnostics[j].text = text}}

\* The cell converts to a number whose fractional part is exactly zero.
Whole(cell) == ~isnull(to_numeric(cell)) /\ to_numeric(cell).frac = 0

\* C21: under an integer type expectation a non-null value passes the type
\* check iff it converts to a number whose fractional part is exactly zero;
\* any non-zero fractional part, however small, is reported.
C21_IntegerExactlyWhole ==
    (Reported /\ e_in.expectations = <<LineQtyInteger>>) =>
        \A i \in 1..Len(e_in.df.rows) :
            ~isnull(e_in.df.rows[i].cells["qty"]) =>
                ((i - 1) \notin RowsUnder(e_out.column_results[1], "expected integer")
                    <=> Whole(e_in.df.rows[i].cells["qty"]))


\* The report text of the last call of to_html: returned or written.
ReportText == IF html.path = "" THEN html.ret ELSE html.written

\* The partitions of the Delta under the titles of their sections, in the
\* order of the report.
Partitions ==
    <<[title |-> "Rows in A only (Top 50)", df |-> unmatched_a],
      [title |-> "Rows in B only (Top 50)", df |-> unmatched_b],
      [title |-> "Mismatches (Top 50)", df |-> mismatches]>>

\* C22: to_html without a destination returns the report text and writes
\* nothing; with a destination it writes the text there and returns nothing.
\* The text shows the three full partition counts, has a table section for a
\* partition iff the partition is non-empty, and each table holds the first
\* 50 rows of its partition, or all of them when there are fewer.
C22_ReportTextAndTables ==
    html.kind = "returned" =>
        /\ IF html.path = ""
           THEN html.ret # NoText /\ html.written = NoText
           ELSE html.ret = NoText /\ html.written # NoText
        /\ ReportText.unmatched_a_count = Len(unmatched_a.rows)
        /\ ReportText.unmatched_b_count = Len(unmatched_b.rows)
        /\ ReportText.mismatches_count = Len(mismatches.rows)
        /\ \A p \in 1..3 :
              LET part == Partitions[p]
                  shown == SelectSeq(ReportText.sections,
                                     LAMBDA sec : sec.title = part.title)
              IN IF part.df.rows = <<>>
                 THEN shown = <<>>
                 ELSE /\ Len(shown) = 1
                      /\ shown[1].table.header = part.df.cols
                      /\ Len(shown[1].table.body) <= 50
                      /\ Len(shown[1].table.body) =
                            (IF Len(part.df.rows) < 50 THEN Len(part.df.rows) ELSE 50)
                      /\ \A j \in 1..Len(shown[1].table.body) :
                            shown[1].table.body[j] = part.df.rows[j].cells
        /\ Len(ReportText.sections)
              = Cardinality({p \in 1..3 : Partitions[p].df.rows # <<>>})

\* A report written to a file for a Delta with more than 50 mismatched rows
\* and no unmatched row.
C22_Witness ==
    /\ html.kind = "returned"
    /\ html.path = "report.html"
    /\ Len(mismatches.rows) > 50
    /\ unmatched_a.rows = <<>>
    /\ Len(html.written.sections) = 1
    /\ Len(html.written.sections[1].table.body) = 50


\* Both files are there.
BothExist == argv.file_a.exists /\ argv.file_b.exists

\* Every key is a column of both files.
KeysPresent ==
    \A k \in Range(argv.keys) :
        k \in Range(argv.file_a.header) /\ k \in Range(argv.file_b.header)

\* The lines of the three partition counts for the tables of the two files.
CountLines ==
    echo_counts(Delta(read_csv(argv.file_a).frame, read_csv(argv.file_b).frame,
                      argv.keys, argv.abs_tol, argv.rel_tol))

NoExplicitExpectations ==
    audit_in.allow_nulls = <<>> /\ audit_in.expected_dtypes = <<>>

\* Most values of the column are integers, and some are not.
MostlyIntegers(df, column) ==
    LET whole == {i \in 1..Len(df.rows) : Whole(df.rows[i].cells[column])}
        other == {i \in 1..Len(df.rows) :
                    ~isnull(df.rows[i].cells[column]) /\ ~Whole(df.rows[i].cells[column])}
    IN other # {} /\ Cardinality(whole) > Cardinality(other)

\* C24: audit_dataframe called without expectations on a column of mostly
\* integers that holds other values too reports inferred_dtype_mismatch for
\* the column; with infer_dtypes=False it returns an empty issue table.
C24_InfersDtypesByDefault ==
    (issues.kind = "returned" /\ NoExplicitExpectations
        /\ MostlyIntegers(audit_in.df, "mostly_int")) =>
        IF audit_in.extra = {}
        THEN \E i \in 1..Len(issues.rows) :
                /\ issues.rows[i].column = "mostly_int"
                /\ issues.rows[i].issue = "inferred_dtype_mismatch"
        ELSE issues.raised = "none" /\ issues.rows = <<>>


\* The number of rows of a frame that carry the key combination k.
CountKey(df, k) == Len(RowsWithKey(df, keys, k))

\* Row i of A joined with row j of B, as a row of the matched group.
JoinedRow(i, j) ==
    [c \in ColSet(both) |-> merged_cells(df_a, df_b, keys, i, j, "both")[c]]

\* The pairs of a row of A and a row of B that carry the key combination k.
PairsWithKey(k) ==
    Range(RowsWithKey(df_a, keys, k)) \X Range(RowsWithKey(df_b, keys, k))

\* C25: a key combination occurring m times in A and n times in B has m*n
\* joined rows in the matched group, one for each pair of its rows, and each
\* pair is a mismatch or not by its own values; a key occurring m times in
\* A and not in B has m rows in unmatched_a, and likewise for B.
C25_DuplicateKeysCrossProduct ==
    pc = "built" =>
        \A k \in KeysOf(df_a, keys) \cup KeysOf(df_b, keys) :
            LET m == CountKey(df_a, k)
                n == CountKey(df_b, k)
            IN /\ CountKey(both, k) = m * n
               /\ CountKey(unmatched_a, k) = (IF n = 0 THEN m ELSE 0)
               /\ CountKey(unmatched_b, k) = (IF m = 0 THEN n ELSE 0)
               /\ \A pr \in PairsWithKey(k) :
                     /\ JoinedRow(pr[1], pr[2]) \in CellsOf(both)
                     /\ JoinedRow(pr[1], pr[2]) \in CellsOf(mismatches)
                            <=> RowDiffers(JoinedRow(pr[1], pr[2]))
               /\ CountKey(mismatches, k)
                     = Cardinality({pr \in PairsWithKey(k) :
                                      RowDiffers(JoinedRow(pr[1], pr[2]))})

\* A key twice in A and twice in B: four joined rows, of which some but not
\* all are mismatches; or a key twice in A alone.
C25_Witness ==
    /\ pc = "built"
    /\ \E k \in KeysOf(df_a, keys) :
          /\ CountKey(df_a, k) = 2
          /\ CountKey(df_b, k) = 2
          /\ CountKey(both, k) = 4
          /\ CountKey(mismatches, k) \in 1..3


\* The Delta of the same tables and keys under other tolerances.
Retoleranced(t) == Delta(in_a, in_b, keys, t[1], t[2])

\* C26: with abs_tol' >= abs_tol and rel_tol' >= rel_tol every row of the
\* mismatches under (abs_tol', rel_tol') is a row of the mismatches under
\* (abs_tol, rel_tol), and unmatched_a and unmatched_b are the same tables.
C26_TolerancesMonotone ==
    pc = "built" =>
        \A t \in Tolerances :
            (t[1] >= abs_tol /\ t[2] >= rel_tol) =>
                /\ CellsOf(Retoleranced(t).mismatches) \subseteq CellsOf(mismatches)
                /\ Len(Retoleranced(t).mismatches.rows) <= Len(mismatches.rows)
                /\ Retoleranced(t).unmatched_a = unmatched_a
                /\ Retoleranced(t).unmatched_b = unmatched_b

\* A Delta with a mismatch that a wider tolerance drops, and with rows on
\* one side only.
C26_Witness ==
    /\ pc = "built"
    /\ mismatches.rows # <<>>
    /\ unmatched_a.rows # <<>>
    /\ \E t \in Tolerances :
          /\ t[1] >= abs_tol
          /\ t[2] >= rel_tol
          /\ Len(Retoleranced(t).mismatches.rows) < Len(mismatches.rows)

\* The Delta of the same tables in the other order.
Swapped == Delta(in_b, in_a, keys, abs_tol, rel_tol)

\* C27: with rel_tol = 0 the mismatches of Delta(A, B) and of Delta(B, A)
\* report the same key combinations, and the same rows once the "_a" and
\* "_b" values are exchanged.
C27_SwapInvariantWithoutRelTol ==
    (pc = "built" /\ rel_tol = 0) =>
        /\ KeysOf(mismatches, keys) = KeysOf(Swapped.mismatches, keys)
        /\ SameBag(CellSeq(mismatches), SwappedCells(Swapped.mismatches))

\* Under an absolute tolerance alone: a pair within the band and a pair
\* outside it, the same in both orders.
C27_Witness ==
    /\ pc = "built"
    /\ rel_tol = 0
    /\ abs_tol > 0
    /\ mismatches.rows # <<>>
    /\ Len(mismatches.rows) < Len(both.rows)
    /\ Swapped.mismatches.rows # <<>>

\* Under a relative tolerance the band depends on which table comes second:
\* a key reported by Delta(A, B) and not by Delta(B, A), or the reverse.
RelativeBandAsymmetric ==
    /\ pc = "built"
    /\ rel_tol > 0
    /\ KeysOf(mismatches, keys) # KeysOf(Swapped.mismatches, keys)


\* The position of the first word that is word in any letter case; 0 if none.
FirstIgnoringCase(text, word) == find(lowered_words(text), {word}, 1)

\* The expression a row-rule line stands for: the text after "satisfy" if
\* that word occurs, otherwise the text after "must", otherwise the line.
ExpressionOf(line) ==
    IF FirstIgnoringCase(line, "satisfy") # 0
    THEN rest(line, FirstIgnoringCase(line, "satisfy"))
    ELSE IF FirstIgnoringCase(line, "must") # 0
    THEN rest(line, FirstIgnoringCase(line, "must"))
    ELSE line

\* C28: every non-empty expectation line that begins, in any letter case,
\* with "rows must", "every row must" or "expect rows" is parsed without an
\* exception into exactly one row rule, whose description is the line and
\* whose expression is the text after "satisfy", else after "must", else the
\* whole line; expect_df does not end in an IndexError.
C28_RowRuleParsingTotal ==
    e_out.kind # "none" =>
        /\ e_out.exc # "IndexError"
        /\ \A i \in 1..Len(e_in.expectations) :
              RowLine(e_in.expectations[i]) =>
                  /\ _parse_row_rules(<<e_in.expectations[i]>>).raised = "none"
                  /\ _parse_row_rules(<<e_in.expectations[i]>>).rules
                        = <<RowRule(e_in.expectations[i],
                                    ExpressionOf(e_in.expectations[i]))>>

\* The same for the lines that write "satisfy" and "must" in lower case
\* wherever they are the word the text is split at.
C28_LowerCaseSplitWord ==
    e_out.kind # "none" =>
        /\ (\A i \in 1..Len(RowRuleTexts) : ~LosesCase(RowRuleTexts[i]))
              => e_out.exc # "IndexError"
        /\ \A i \in 1..Len(e_in.expectations) :
              (RowLine(e_in.expectations[i]) /\ ~LosesCase(e_in.expectations[i])) =>
                  /\ _parse_row_rules(<<e_in.expectations[i]>>).raised = "none"
                  /\ _parse_row_rules(<<e_in.expectations[i]>>).rules
                        = <<RowRule(e_in.expectations[i],
                                    ExpressionOf(e_in.expectations[i]))>>

\* "Rows must satisfy amount >= 0" on amount = [10, -5, 0]: one row rule,
\* described by the line as written, that fails for row 1.
C28_Witness ==
    /\ Reported
    /\ e_in.expectations = <<RuleTitle>>
    /\ Len(e_out.row_results) = 1
    /\ e_out.row_results[1].description = RuleTitle
    /\ e_out.row_results[1].failing_indices = <<1>>


\* A validator whose result _run_validator computes from a verdict: not a
\* result passed in, and not a function that returns a result of its own.
Computed(v) == v.form # "RowRuleResult" /\ v.func # "prebuilt"

\* C29: in a report every column result is passed iff it has no
\* diagnostics, and every row-rule result and every validator result
\* computed from a verdict that is passed lists no failing rows.
C29_ResultsConsistent ==
    Reported =>
        /\ \A i \in 1..Len(e_out.column_results) :
              e_out.column_results[i].passed
                  <=> (e_out.column_results[i].diagnostics = <<>>)
        /\ \A i \in 1..Len(e_out.row_results) :
              e_out.row_results[i].passed
                  => (e_out.row_results[i].failing_indices = <<>>)
        /\ Len(e_out.custom_results) = Len(e_in.validators)
        /\ \A i \in 1..Len(e_out.custom_results) :
              (Computed(e_in.validators[i]) /\ e_out.custom_results[i].passed)
                  => (e_out.custom_results[i].failing_indices = <<>>)

\* A report with passed and failed results of each kind: a column result
\* with a diagnostic next to one without, a row rule that lists failing
\* rows, and a validator that the rows of the table all satisfy.
C29_Witness ==
    /\ Reported
    /\ e_in.df.rows # <<>>
    /\ \E i \in 1..Len(e_out.column_results) : e_out.column_results[i].passed
    /\ \E i \in 1..Len(e_out.column_results) :
          e_out.column_results[i].diagnostics # <<>>
    /\ \E i \in 1..Len(e_out.row_results) :
          e_out.row_results[i].failing_indices # <<>>
    /\ \E i \in 1..Len(e_out.custom_results) :
          /\ Computed(e_in.validators[i])
          /\ e_out.custom_results[i].passed

\* A result handed in by the caller is returned as it is, failing rows
\* under passed = true included.
PrebuiltKeptAsGiven ==
    /\ Reported
    /\ \E i \in 1..Len(e_out.custom_results) :
          /\ ~Computed(e_in.validators[i])
          /\ e_out.custom_results[i].passed
          /\ e_out.custom_results[i].failing_indices # <<>>


\* The diagnostics of the type, allowed-value and pattern checks.
ValueDiagnostics ==
    {"expected integer", "expected float", "expected string", "expected datetime",
     "unexpected values", "regex mismatch"}

\* The labels of the rows of the table whose cell in column name is null.
NullLabels(name) ==
    {e_in.df.rows[k].idx : k \in {j \in 1..Len(e_in.df.rows) :
                                     isnull(e_in.df.rows[j].cells[name])}}

\* The labels diagnostic d of a column result lists.
Listed(d) == {d.rows[k] : k \in 1..Len(d.rows)}

\* The nullability policy of the i-th column rule: "False" when it forbids
\* nulls, "True" when it allows them, "None" when it says nothing.
Policy(i) == parse_column_line(ColumnRuleTexts[i]).allow_nulls

\* C30: a null cell is listed by no type, allowed-value or pattern
\* diagnostic, whatever the nullability policy of the rule, and it is listed
\* by a "nulls forbidden" diagnostic iff the rule forbids nulls.
C30_NullsJudgedByPolicyOnly ==
    (Reported /\ Len(e_out.column_results) = Len(ColumnRuleTexts)) =>
        \A i \in 1..Len(e_out.column_results) :
            LET r == e_out.column_results[i]
            IN r.column \in ColSet(e_in.df) =>
                 \A label \in NullLabels(r.column) :
                     /\ \A k \in 1..Len(r.diagnostics) :
                           r.diagnostics[k].text \in ValueDiagnostics
                               => label \notin Listed(r.diagnostics[k])
                     /\ (\E k \in 1..Len(r.diagnostics) :
                             /\ r.diagnostics[k].text = "nulls forbidden"
                             /\ label \in Listed(r.diagnostics[k]))
                          <=> (Policy(i) = "False")

\* qty = ["x", None] under "column qty: not null, integer": row 0 is not an
\* integer, row 1 is a forbidden null and is not listed as a wrong type.
C30_Witness ==
    /\ Reported
    /\ e_in.expectations = <<LineQtyIntegerNotNull>>
    /\ CellSeq(e_in.df) = <<[qty |-> Str(TextWord)], [qty |-> NULL]>>
    /\ Len(e_out.column_results[1].diagnostics) = 2
    /\ e_out.column_results[1].diagnostics[1].text = "nulls forbidden"
    /\ e_out.column_results[1].diagnostics[1].rows = <<1>>
    /\ e_out.column_results[1].diagnostics[2].text = "expected integer"
    /\ e_out.column_results[1].diagnostics[2].rows = <<0>>

=============================================================================
